---- MODULE Spec2Model ----
(***************************************************************************)
(* Configuration resolution of pdm: the pool-service resolver              *)
(* (p2poolv2_config_parser.rs: parse_config, StratumConfig::parse,         *)
(* flatten) and the daemon resolver (config.rs: parse_config).             *)
(*                                                                         *)
(* Strings are TLA+ strings; every conversion (lower-casing, splitting an  *)
(* environment name, decimal and hexadecimal parsing and printing) is      *)
(* computed character by character.                                        *)
(***************************************************************************)
EXTENDS Integers, Sequences, FiniteSets, TLC

VARIABLES
    edits,     \* how many edits the files and the environment have received
    file,      \* the pool-service file selected by the caller (path contents)
    env,       \* the process environment: variable name -> value
    pc,        \* "start" before the pool-service parse_config is called, "done" after
    p,         \* the P2PoolConfig deserialized by the call
    ret,       \* the value returned by the pool-service parse_config
    conf,      \* the daemon file selected by the caller
    dpc,       \* position inside the daemon parse_config
    dret,      \* the value returned by the daemon parse_config
    arg,       \* the argument of a rendering or parsing function applied alone
    out,       \* the result of that function ("" before it is applied)
    app,       \* the App of the terminal application, without its explorer
    explorer,  \* App::explorer, the FileExplorer
    action,    \* the last AppAction handled, or the last explorer method called
    exited     \* handle_action returned true, or the loop of run_app returned

vars == <<edits, file, env, pc, p, ret, conf, dpc, dret, arg, out, app, explorer, action, exited>>
poolVars == <<file, env, pc, p, ret>>
daemonVars == <<conf, dpc, dret>>
fnVars == <<arg, out>>
uiVars == <<app, explorer, action, exited>>

(***************************************************************************)
(* Bounds of the model.                                                    *)
(***************************************************************************)
\* number of edits (file lines, environment variables) applied to a template
MaxEdits == 1
\* number of edits (lines) applied to a daemon template file
MaxConfEdits == 1

(***************************************************************************)
(* Characters and strings.                                                 *)
(***************************************************************************)
Ch(s, i) == SubSeq(s, i, i)

\* the function f itself, in enumerated form (the model checker then applies
\* it by lookup instead of re-evaluating its definition)
Enumerated(f) == f @@ << >>

Min(a, b) == IF a < b THEN a ELSE b

\* the element of a one-element set
Only(S) == CHOOSE x \in S : TRUE

UpperToLower ==
  Enumerated(
    [c \in {"A","B","C","D","E","F","G","H","I","J","K","L","M","N","O","P",
            "Q","R","S","T","U","V","W","X","Y","Z"} |->
        CASE c = "A" -> "a" [] c = "B" -> "b" [] c = "C" -> "c" [] c = "D" -> "d"
          [] c = "E" -> "e" [] c = "F" -> "f" [] c = "G" -> "g" [] c = "H" -> "h"
          [] c = "I" -> "i" [] c = "J" -> "j" [] c = "K" -> "k" [] c = "L" -> "l"
          [] c = "M" -> "m" [] c = "N" -> "n" [] c = "O" -> "o" [] c = "P" -> "p"
          [] c = "Q" -> "q" [] c = "R" -> "r" [] c = "S" -> "s" [] c = "T" -> "t"
          [] c = "U" -> "u" [] c = "V" -> "v" [] c = "W" -> "w" [] c = "X" -> "x"
          [] c = "Y" -> "y" [] c = "Z" -> "z"])

\* str::to_lowercase on the ASCII strings of the model
RECURSIVE ToLower(_)
ToLower(s) ==
    IF Len(s) = 0 THEN ""
    ELSE IF Len(s) = 1 THEN (IF s \in DOMAIN UpperToLower THEN UpperToLower[s] ELSE s)
    ELSE ToLower(SubSeq(s, 1, Len(s) \div 2)) \o ToLower(SubSeq(s, (Len(s) \div 2) + 1, Len(s)))

\* str::starts_with
StartsWith(s, pre) == Len(s) >= Len(pre) /\ SubSeq(s, 1, Len(pre)) = pre

\* str::split on a one-character separator
RECURSIVE SplitFrom(_, _, _, _)
SplitFrom(s, sep, i, cur) ==
    IF i > Len(s) THEN <<cur>>
    ELSE IF Ch(s, i) = sep THEN <<cur>> \o SplitFrom(s, sep, i + 1, "")
    ELSE SplitFrom(s, sep, i + 1, cur \o Ch(s, i))

Split(s, sep) == SplitFrom(s, sep, 1, "")

\* [String]::join
RECURSIVE Join(_, _)
Join(xs, sep) ==
    IF Len(xs) = 0 THEN ""
    ELSE IF Len(xs) = 1 THEN xs[1]
    ELSE xs[1] \o sep \o Join(Tail(xs), sep)

DigitVal ==
  Enumerated(
    [c \in {"0","1","2","3","4","5","6","7","8","9"} |->
        CASE c = "0" -> 0 [] c = "1" -> 1 [] c = "2" -> 2 [] c = "3" -> 3
          [] c = "4" -> 4 [] c = "5" -> 5 [] c = "6" -> 6 [] c = "7" -> 7
          [] c = "8" -> 8 [] c = "9" -> 9])

DigitChar == <<"0","1","2","3","4","5","6","7","8","9","a","b","c","d","e","f">>

IsDecimal(s) == Len(s) > 0 /\ \A i \in 1..Len(s) : Ch(s, i) \in DOMAIN DigitVal

\* str::parse::<integer> on an unsigned decimal literal
RECURSIVE ParseDecimal(_)
ParseDecimal(s) ==
    IF Len(s) = 0 THEN 0
    ELSE 10 * ParseDecimal(SubSeq(s, 1, Len(s) - 1)) + DigitVal[Ch(s, Len(s))]

\* integer to_string (Display of an unsigned integer)
RECURSIVE UIntToString(_)
UIntToString(n) ==
    IF n < 10 THEN DigitChar[n + 1]
    ELSE UIntToString(n \div 10) \o DigitChar[(n % 10) + 1]

(***************************************************************************)
(* Values.  A configuration value (config::Value) and a typed field value  *)
(* share one record shape: t is the kind, s a string, n an integer (a      *)
(* boolean is n = 0 or 1; an f64 is held in tenths), a an array of strings.*)
(***************************************************************************)
VStr(s) == [t |-> "str", s |-> s, n |-> 0, a |-> <<>>]
VInt(n) == [t |-> "int", s |-> "", n |-> n, a |-> <<>>]
VBool(b) == [t |-> "bool", s |-> "", n |-> IF b THEN 1 ELSE 0, a |-> <<>>]
VFloat(tenths) == [t |-> "float", s |-> "", n |-> tenths, a |-> <<>>]
VArr(a) == [t |-> "arr", s |-> "", n |-> 0, a |-> a]
Table == [t |-> "table", s |-> "", n |-> 0, a |-> <<>>]
NoneV == [t |-> "none", s |-> "", n |-> 0, a |-> <<>>]

IsSome(v) == v.t # "none"

DeOk(v) == [ok |-> TRUE, v |-> v]
DeErr == [ok |-> FALSE, v |-> NoneV]

\* f64 Display of a value held in tenths ("1" for 1.0, "2.5" for 2.5)
FloatToString(tenths) ==
    IF tenths % 10 = 0 THEN UIntToString(tenths \div 10)
    ELSE UIntToString(tenths \div 10) \o "." \o UIntToString(tenths % 10)

\* format!("{:.1}", f64) of a value held in tenths
FormatFloat1(tenths) == UIntToString(tenths \div 10) \o "." \o UIntToString(tenths % 10)

(***************************************************************************)
(* P2POOL SCHEMA: constants and serde default functions.                   *)
(***************************************************************************)
MAX_POOL_SIGNATURE_LENGTH == 16

default_hostname == "0.0.0.0"
default_stratum_port == 3333
default_start_difficulty == 10000
default_minimum_difficulty == 100
default_zmqpubhashblock == "tcp://127.0.0.1:28332"
default_network == "Signet"
default_version_mask == 536862720
default_difficulty_multiplier == 10
default_listen_address == "/ip4/0.0.0.0/tcp/6884"
d1_u32 == 1
d10 == 10
d50 == 50
d100 == 100
d1_u64 == 1
d60 == 60
d30 == 30
d7 == 7
log_level == "info"
stats_dir == "./logs/stats"

\* u16::MAX and i32::MAX; the wider unsigned types hold every integer of the model
U16Max == 65535
I32Max == 2147483647
Unbounded == -1

Sections == <<"network", "store", "stratum", "miner", "bitcoinrpc", "logging", "api">>
SectionSet == {Sections[i] : i \in 1..Len(Sections)}

F(sec, key, kind, opt, dflt) ==
    [sec |-> sec, key |-> key, kind |-> kind, opt |-> opt, dflt |-> dflt]

\* struct NetworkConfig, in declaration order
NetworkConfig == <<
    F("network", "listen_address", "String", FALSE, VStr(default_listen_address)),
    F("network", "dial_peers", "VecString", FALSE, VArr(<<>>)),
    F("network", "max_pending_incoming", "u32", FALSE, VInt(d10)),
    F("network", "max_pending_outgoing", "u32", FALSE, VInt(d10)),
    F("network", "max_established_incoming", "u32", FALSE, VInt(d50)),
    F("network", "max_established_outgoing", "u32", FALSE, VInt(d50)),
    F("network", "max_established_per_peer", "u32", FALSE, VInt(d1_u32)),
    F("network", "max_workbase_per_second", "u32", FALSE, VInt(d10)),
    F("network", "max_userworkbase_per_second", "u32", FALSE, VInt(d10)),
    F("network", "max_miningshare_per_second", "u32", FALSE, VInt(d100)),
    F("network", "max_inventory_per_second", "u32", FALSE, VInt(d100)),
    F("network", "max_transaction_per_second", "u32", FALSE, VInt(d100)),
    F("network", "rate_limit_window_secs", "u64", FALSE, VInt(d1_u64)),
    F("network", "max_requests_per_second", "u64", FALSE, VInt(d1_u64)),
    F("network", "peer_inactivity_timeout_secs", "u64", FALSE, VInt(d60)),
    F("network", "dial_timeout_secs", "u64", FALSE, VInt(d30)) >>

\* struct StoreConfig
StoreConfig == <<
    F("store", "path", "String", FALSE, NoneV),
    F("store", "background_task_frequency_hours", "u64", FALSE, VInt(d1_u64)),
    F("store", "pplns_ttl_days", "u64", FALSE, VInt(d7)) >>

\* struct StratumConfig (the serde-visible fields)
StratumConfig == <<
    F("stratum", "hostname", "String", FALSE, VStr(default_hostname)),
    F("stratum", "port", "u16", FALSE, VInt(default_stratum_port)),
    F("stratum", "start_difficulty", "u64", FALSE, VInt(default_start_difficulty)),
    F("stratum", "minimum_difficulty", "u64", FALSE, VInt(default_minimum_difficulty)),
    F("stratum", "maximum_difficulty", "u64", TRUE, NoneV),
    F("stratum", "solo_address", "String", TRUE, NoneV),
    F("stratum", "zmqpubhashblock", "String", FALSE, VStr(default_zmqpubhashblock)),
    F("stratum", "bootstrap_address", "String", TRUE, NoneV),
    F("stratum", "donation_address", "String", TRUE, NoneV),
    F("stratum", "donation", "u16", TRUE, NoneV),
    F("stratum", "fee_address", "String", TRUE, NoneV),
    F("stratum", "fee", "u16", TRUE, NoneV),
    F("stratum", "network", "Network", FALSE, VStr(default_network)),
    F("stratum", "version_mask", "VersionMask", FALSE, VInt(default_version_mask)),
    F("stratum", "difficulty_multiplier", "f64", FALSE, VFloat(default_difficulty_multiplier)),
    F("stratum", "ignore_difficulty", "bool", TRUE, NoneV),
    F("stratum", "pool_signature", "String", TRUE, NoneV) >>

\* struct MinerConfig
MinerConfig == << F("miner", "pubkey", "String", FALSE, NoneV) >>

\* struct BitcoinRpcConfig
BitcoinRpcConfig == <<
    F("bitcoinrpc", "url", "String", FALSE, NoneV),
    F("bitcoinrpc", "username", "String", FALSE, NoneV),
    F("bitcoinrpc", "password", "String", FALSE, NoneV) >>

\* struct LoggingConfig
LoggingConfig == <<
    F("logging", "file", "String", TRUE, NoneV),
    F("logging", "level", "String", FALSE, VStr(log_level)),
    F("logging", "stats_dir", "String", FALSE, VStr(stats_dir)) >>

\* struct ApiConfig
ApiConfig == <<
    F("api", "hostname", "String", FALSE, NoneV),
    F("api", "port", "u16", FALSE, NoneV),
    F("api", "auth_user", "String", TRUE, NoneV),
    F("api", "auth_token", "String", TRUE, NoneV) >>

\* struct P2PoolConfig: the sections and whether the section is an Option
\* (store, stratum, miner, bitcoinrpc, api) or #[serde(default)] (network, logging)
P2PoolConfig ==
    [network |-> [fields |-> NetworkConfig, optional |-> FALSE],
     store |-> [fields |-> StoreConfig, optional |-> TRUE],
     stratum |-> [fields |-> StratumConfig, optional |-> TRUE],
     miner |-> [fields |-> MinerConfig, optional |-> TRUE],
     bitcoinrpc |-> [fields |-> BitcoinRpcConfig, optional |-> TRUE],
     logging |-> [fields |-> LoggingConfig, optional |-> FALSE],
     api |-> [fields |-> ApiConfig, optional |-> TRUE]]

FieldsOf(sec) == P2PoolConfig[sec].fields

\* section -> the keys of its struct
SectionKeys ==
    Enumerated([sec \in SectionSet |-> {FieldsOf(sec)[i].key : i \in 1..Len(FieldsOf(sec))}])
KeysOf(sec) == SectionKeys[sec]

\* section -> key -> the field of the struct
SectionFields ==
    Enumerated([sec \in SectionSet |->
        Enumerated([key \in SectionKeys[sec] |->
            CHOOSE f \in {FieldsOf(sec)[i] : i \in 1..Len(FieldsOf(sec))} : f.key = key])])
FieldOf(sec, key) == SectionFields[sec][key]

(***************************************************************************)
(* config::Value coercions used by try_deserialize.                        *)
(***************************************************************************)
\* Value::into_string
IntoString(v) ==
    CASE v.t = "str" -> DeOk(VStr(v.s))
      [] v.t = "int" -> DeOk(VStr(UIntToString(v.n)))
      [] v.t = "bool" -> DeOk(VStr(IF v.n = 1 THEN "true" ELSE "false"))
      [] v.t = "float" -> DeOk(VStr(FloatToString(v.n)))
      [] OTHER -> DeErr

\* Value::into_int followed by the conversion to the field's unsigned type
IntoUInt(v, max) ==
    LET n == CASE v.t = "int" -> v.n
               [] v.t = "bool" -> v.n
               [] v.t = "float" -> v.n \div 10
               [] v.t = "str" ->
                    IF ToLower(v.s) \in {"true", "on", "yes"} THEN 1
                    ELSE IF ToLower(v.s) \in {"false", "off", "no"} THEN 0
                    ELSE IF IsDecimal(v.s) THEN ParseDecimal(v.s)
                    ELSE -1
               [] OTHER -> -1
    IN  IF n >= 0 /\ (max = Unbounded \/ n <= max) THEN DeOk(VInt(n)) ELSE DeErr

\* Value::into_bool
IntoBool(v) ==
    CASE v.t = "bool" -> DeOk(VBool(v.n = 1))
      [] v.t = "int" -> DeOk(VBool(v.n # 0))
      [] v.t = "float" -> DeOk(VBool(v.n # 0))
      [] v.t = "str" ->
            IF ToLower(v.s) \in {"1", "true", "on", "yes"} THEN DeOk(VBool(TRUE))
            ELSE IF ToLower(v.s) \in {"0", "false", "off", "no"} THEN DeOk(VBool(FALSE))
            ELSE DeErr
      [] OTHER -> DeErr

\* Value::into_float (the model holds an f64 in tenths)
IntoFloat(v) ==
    CASE v.t = "float" -> DeOk(VFloat(v.n))
      [] v.t = "int" -> DeOk(VFloat(10 * v.n))
      [] v.t = "bool" -> DeOk(VFloat(10 * v.n))
      [] v.t = "str" -> IF IsDecimal(v.s) THEN DeOk(VFloat(10 * ParseDecimal(v.s))) ELSE DeErr
      [] OTHER -> DeErr

\* Value::into_array of strings
IntoVecString(v) == IF v.t = "arr" THEN DeOk(VArr(v.a)) ELSE DeErr

(***************************************************************************)
(* bitcoin::Network                                                         *)
(***************************************************************************)
Networks == {"Bitcoin", "Testnet", "Signet", "Regtest"}

\* variant: the name compared without regard to case
from_core_arg_nocase(s) ==
    CASE ToLower(s) = "main" -> DeOk(VStr("Bitcoin"))
      [] ToLower(s) = "test" -> DeOk(VStr("Testnet"))
      [] ToLower(s) = "signet" -> DeOk(VStr("Signet"))
      [] ToLower(s) = "regtest" -> DeOk(VStr("Regtest"))
      [] OTHER -> DeErr

\* Network::from_core_arg
from_core_arg(s) ==
    CASE s = "main" -> DeOk(VStr("Bitcoin"))
      [] s = "test" -> DeOk(VStr("Testnet"))
      [] s = "signet" -> DeOk(VStr("Signet"))
      [] s = "regtest" -> DeOk(VStr("Regtest"))
      [] OTHER -> DeErr

deserialize_network(v) ==
    LET s == IntoString(v) IN IF s.ok THEN from_core_arg(s.v.s) ELSE DeErr

(***************************************************************************)
(* i32::from_str_radix(s, 16) and format!("{:08x}", i32)                   *)
(***************************************************************************)
HexVal(c) ==
    CASE c \in DOMAIN DigitVal -> DigitVal[c]
      [] c \in {"a", "A"} -> 10 [] c \in {"b", "B"} -> 11 [] c \in {"c", "C"} -> 12
      [] c \in {"d", "D"} -> 13 [] c \in {"e", "E"} -> 14 [] c \in {"f", "F"} -> 15
      [] OTHER -> -1

IsHex(s) == Len(s) > 0 /\ \A i \in 1..Len(s) : HexVal(Ch(s, i)) >= 0

RECURSIVE ParseHexDigits(_)
ParseHexDigits(s) ==
    IF Len(s) = 0 THEN 0
    ELSE 16 * ParseHexDigits(SubSeq(s, 1, Len(s) - 1)) + HexVal(Ch(s, Len(s)))

\* the digits without their leading zeros
RECURSIVE StripZeros(_)
StripZeros(s) ==
    IF Len(s) > 1 /\ Ch(s, 1) = "0" THEN StripZeros(SubSeq(s, 2, Len(s))) ELSE s

I32Min == (0 - I32Max) - 1

\* the magnitude fits 31 bits, or is exactly 2^31 for a negative literal
from_str_radix_16(s) ==
    LET neg == Len(s) > 0 /\ Ch(s, 1) = "-"
        signed == Len(s) > 0 /\ Ch(s, 1) \in {"-", "+"}
        digits == IF signed THEN SubSeq(s, 2, Len(s)) ELSE s
        sig == StripZeros(digits)
    IN  IF ~IsHex(digits) THEN DeErr
        ELSE IF Len(sig) < 8 \/ (Len(sig) = 8 /\ HexVal(Ch(sig, 1)) < 8)
             THEN DeOk(VInt(IF neg THEN 0 - ParseHexDigits(sig) ELSE ParseHexDigits(sig)))
        ELSE IF neg /\ sig = "80000000" THEN DeOk(VInt(I32Min))
        ELSE DeErr

deserialize_version_mask(v) ==
    LET s == IntoString(v) IN IF s.ok THEN from_str_radix_16(s.v.s) ELSE DeErr

RECURSIVE HexDigits(_)
HexDigits(n) ==
    IF n < 16 THEN DigitChar[n + 1]
    ELSE HexDigits(n \div 16) \o DigitChar[(n % 16) + 1]

RECURSIVE PadLeft(_, _, _)
PadLeft(s, width, c) == IF Len(s) >= width THEN s ELSE PadLeft(c \o s, width, c)

Two28 == 268435456

\* variant: the digits printed without the padding of zeros
FormatHex08_unpadded(n) ==
    IF n >= 0 THEN HexDigits(n)
    ELSE LET low == (n + I32Max) + 1
         IN  DigitChar[8 + (low \div Two28) + 1] \o PadLeft(HexDigits(low % Two28), 7, "0")

\* format!("{:08x}", i32): the two's complement bit pattern, at least 8 digits
\* (a negative n has bit 31 set: its low 31 bits are n + 2^31)
FormatHex08(n) ==
    IF n >= 0 THEN PadLeft(HexDigits(n), 8, "0")
    ELSE LET low == (n + I32Max) + 1
         IN  DigitChar[8 + (low \div Two28) + 1] \o PadLeft(HexDigits(low % Two28), 7, "0")

(***************************************************************************)
(* bitcoin::Address.  The checksum of an address is not recomputed: the    *)
(* well-formed addresses are the listed ones, whose checksums are valid;   *)
(* the network class is decoded from the prefix as the library does.       *)
(***************************************************************************)
ChecksummedAddresses ==
    {"tb1qyazxde6558qj6z3d9np5e6msmrspwpf6k0qggk",
     "tb1qw508d6qejxtdg4y5r3zarvary0c5xw7kxpjzsx",
     "bc1qw508d6qejxtdg4y5r3zarvary0c5xw7kv8f3t4",
     "bcrt1qw508d6qejxtdg4y5r3zarvary0c5xw7kygt080",
     "mipcBbFg9gMiCh81Kj8tqqdgoZub1ZJRfn",
     "1A1zP1eP5QGefi2DMPTfTL5SLmv7DivfNa"}

\* Address::from_str: the unchecked address, identified by its encoding class
Address_from_str(s) ==
    IF s \notin ChecksummedAddresses THEN [ok |-> FALSE, class |-> ""]
    ELSE IF ToLower(SubSeq(s, 1, 3)) = "bc1" THEN [ok |-> TRUE, class |-> "hrp_bc"]
    ELSE IF ToLower(SubSeq(s, 1, 3)) = "tb1" THEN [ok |-> TRUE, class |-> "hrp_tb"]
    ELSE IF ToLower(SubSeq(s, 1, 5)) = "bcrt1" THEN [ok |-> TRUE, class |-> "hrp_bcrt"]
    ELSE IF Ch(s, 1) \in {"1", "3"} THEN [ok |-> TRUE, class |-> "base58_main"]
    ELSE [ok |-> TRUE, class |-> "base58_test"]

\* variant: test-network addresses taken as valid on regtest as well
is_valid_for_network_lax(class, network) ==
    CASE class = "hrp_bc" -> network = "Bitcoin"
      [] class = "hrp_tb" -> network \in {"Testnet", "Signet", "Regtest"}
      [] class = "hrp_bcrt" -> network = "Regtest"
      [] class = "base58_main" -> network = "Bitcoin"
      [] class = "base58_test" -> network \in {"Testnet", "Signet", "Regtest"}
      [] OTHER -> FALSE

\* Address::is_valid_for_network
is_valid_for_network(class, network) ==
    CASE class = "hrp_bc" -> network = "Bitcoin"
      [] class = "hrp_tb" -> network \in {"Testnet", "Signet"}
      [] class = "hrp_bcrt" -> network = "Regtest"
      [] class = "base58_main" -> network = "Bitcoin"
      [] class = "base58_test" -> network \in {"Testnet", "Signet", "Regtest"}
      [] OTHER -> FALSE

\* Address::from_str(..)?.require_network(network)? : Some(address) or the error
ParseAddress(s, network) ==
    LET a == Address_from_str(s)
    IN  a.ok /\ is_valid_for_network(a.class, network)

(***************************************************************************)
(* secp256k1::PublicKey::from_str (imported as CompressedPublicKey): the   *)
(* hexadecimal text, in either case, of a 33-byte key (prefix 02 or 03) or *)
(* of a 65-byte key (prefix 04), whose point is on the curve.  The curve   *)
(* equation is not recomputed: the listed keys are the ones on the curve.  *)
(***************************************************************************)
OnCurveKeys ==
    {"020202020202020202020202020202020202020202020202020202020202020202",
     "0279be667ef9dcbbac55a06295ce870b07029bfcdb2dce28d959f2815b16f81798"}

OnCurveUncompressedKeys ==
    {"0479be667ef9dcbbac55a06295ce870b07029bfcdb2dce28d959f2815b16f81798"
        \o "483ada7726a3c4655da4fbfc0e1108a8fd17b448a68554199c47d08ffb10d4b8"}

CompressedPublicKey_from_str(s) ==
    /\ Len(s) \in {66, 130}
    /\ IsHex(s)
    /\ \/ Len(s) = 66 /\ SubSeq(s, 1, 2) \in {"02", "03"} /\ ToLower(s) \in OnCurveKeys
       \/ Len(s) = 130 /\ SubSeq(s, 1, 2) = "04" /\ ToLower(s) \in OnCurveUncompressedKeys

(***************************************************************************)
(* The inputs of the pool-service resolver.                                *)
(*                                                                         *)
(* A file is described by what parse_config observes of it:                *)
(*   exists    Path::exists                                                *)
(*   readable  read_to_string succeeds (false: a directory, not UTF-8, ...)*)
(*   toml_ok   the text parses as TOML                                     *)
(*   headers   the sections written with their table header "[name]"       *)
(*   stray     the sections whose marker "[name]" occurs in the text       *)
(*             outside a table header (in a comment or in a string)        *)
(*   tables    section -> (key -> value); a section that has keys and is   *)
(*             not in headers is written without the literal header        *)
(*             (dotted keys "stratum.port = 1", or "[ stratum ]")          *)
(* The environment is a function from variable names to values.            *)
(***************************************************************************)
EmptyTable == Enumerated([k \in {} |-> NoneV])

\* the table t with key k set to v
Put(t, k, v) == Enumerated([x \in (DOMAIN t) \cup {k} |-> IF x = k THEN v ELSE t[x]])

\* the table t without key k
Del(t, k) == Enumerated([x \in (DOMAIN t) \ {k} |-> t[x]])

\* raw_text = read_to_string(path).unwrap_or_default(), observed through contains()
RawTextContains(f, sec) ==
    f.exists /\ f.readable /\ sec \in (f.headers \cup f.stray)

\* std::env::vars().any(|(k, _)| k.starts_with("P2POOL_"))
env_override_present(e) == \E name \in DOMAIN e : StartsWith(name, "P2POOL_")

\* the sections the TOML parser finds in the file
FileSections(f) == {s \in SectionSet : s \in f.headers \/ DOMAIN f.tables[s] # {}}

\* File::from(path).format(FileFormat::Toml) collected into the configuration
FileTree(f) == Enumerated([s \in FileSections(f) |-> [v |-> Table, tbl |-> f.tables[s]]])

EmptyTree == Enumerated([k \in {} |-> [v |-> Table, tbl |-> EmptyTable]])

HasEmptySegment(path) == \E i \in 1..Len(path) : path[i] = ""

\* Environment::with_prefix("P2POOL").separator("_"): one variable applied to
\* the configuration.  The name is lower-cased, the prefix "p2pool_" removed,
\* every "_" replaced by "." and the result used as a path into the tree.
ApplyEnvVar(tree, name, value) ==
    LET key == ToLower(name)
        rest == SubSeq(key, 8, Len(key))
        path == Split(rest, "_")
        top == path[1]
        old == IF top \in DOMAIN tree /\ tree[top].v.t = "table"
               THEN tree[top].tbl ELSE EmptyTable
    IN  IF ~StartsWith(key, "p2pool_") THEN tree
        ELSE IF HasEmptySegment(path) THEN Put(tree, rest, [v |-> VStr(value), tbl |-> EmptyTable])
        ELSE IF Len(path) = 1 THEN Put(tree, top, [v |-> VStr(value), tbl |-> EmptyTable])
        ELSE IF Len(path) = 2 THEN Put(tree, top, [v |-> Table, tbl |-> Put(old, path[2], VStr(value))])
        ELSE Put(tree, top, [v |-> Table, tbl |-> Put(old, path[2], Table)])

\* the variables applied in the order the environment is iterated
RECURSIVE ApplyEnv(_, _, _)
ApplyEnv(tree, e, order) ==
    IF Len(order) = 0 THEN tree
    ELSE ApplyEnv(ApplyEnvVar(tree, Head(order), e[Head(order)]), e, Tail(order))

\* the orders in which a set of names can be iterated
Orders(S) == {o \in [1..Cardinality(S) -> S] : \A i, j \in 1..Cardinality(S) : i # j => o[i] # o[j]}

(***************************************************************************)
(* try_deserialize::<P2PoolConfig>                                          *)
(***************************************************************************)
\* deserialization of one value into a field of the given kind
Coerce(kind, v) ==
    CASE kind = "String" -> IntoString(v)
      [] kind = "u16" -> IntoUInt(v, U16Max)
      [] kind = "u32" -> IntoUInt(v, Unbounded)
      [] kind = "u64" -> IntoUInt(v, Unbounded)
      [] kind = "f64" -> IntoFloat(v)
      [] kind = "bool" -> IntoBool(v)
      [] kind = "VecString" -> IntoVecString(v)
      [] kind = "Network" -> deserialize_network(v)
      [] kind = "VersionMask" -> deserialize_version_mask(v)

\* a field of a struct that is being deserialized from the table tbl
DeserField(field, tbl) ==
    IF field.key \in DOMAIN tbl THEN Coerce(field.kind, tbl[field.key])
    ELSE IF IsSome(field.dflt) THEN DeOk(field.dflt)
    ELSE IF field.opt THEN DeOk(NoneV)
    ELSE DeErr

\* #[derive(Default)] of a field's type
DerivedDefault(field) ==
    IF field.opt THEN NoneV
    ELSE CASE field.kind = "String" -> VStr("")
           [] field.kind = "VecString" -> VArr(<<>>)
           [] OTHER -> VInt(0)

NoSection(sec) == [some |-> FALSE, f |-> Enumerated([k \in KeysOf(sec) |-> NoneV])]

\* one section of P2PoolConfig: ok is false on a deserialization error
DeserSection(sec, tree) ==
    IF sec \notin DOMAIN tree THEN
        IF P2PoolConfig[sec].optional THEN [ok |-> TRUE, s |-> NoSection(sec)]
        ELSE [ok |-> TRUE,
              s |-> [some |-> TRUE,
                     f |-> Enumerated([k \in KeysOf(sec) |-> DerivedDefault(FieldOf(sec, k))])]]
    ELSE IF tree[sec].v.t # "table" THEN [ok |-> FALSE, s |-> NoSection(sec)]
    ELSE Only({ [ok |-> \A k \in KeysOf(sec) : d[k].ok,
                 s |-> [some |-> TRUE, f |-> Enumerated([k \in KeysOf(sec) |-> d[k].v])]]
                : d \in {Enumerated([k \in KeysOf(sec) |->
                                        DeserField(FieldOf(sec, k), tree[sec].tbl)])} })

Deserialize(tree) ==
    Only({ [ok |-> \A sec \in SectionSet : d[sec].ok,
            p |-> Enumerated([sec \in SectionSet |-> d[sec].s])]
           : d \in {Enumerated([sec \in SectionSet |-> DeserSection(sec, tree)])} })

\* the message of the error raised by a field whose deserialization fails:
\* the custom message of deserialize_version_mask, the ParseNetworkError of
\* from_core_arg, or the loader's own message (its detail is left out)
DeserMessage(field, tbl) ==
    IF field.key \notin DOMAIN tbl THEN "missing field " \o field.key
    ELSE IF field.kind = "VersionMask" /\ IntoString(tbl[field.key]).ok
    THEN "version_mask must be hex (e.g. 1fffe000)"
    ELSE IF field.kind = "Network" /\ IntoString(tbl[field.key]).ok
    THEN "failed to parse " \o IntoString(tbl[field.key]).v.s \o " as network"
    ELSE "invalid type"

\* the errors try_deserialize can return: the one of the first failing field
\* it visits, and the tables are visited in the iteration order of their map
DeserErrors(tree) ==
    UNION {IF tree[sec].v.t # "table" THEN {"invalid type"}
           ELSE {DeserMessage(FieldOf(sec, k), tree[sec].tbl) :
                    k \in {q \in KeysOf(sec) : ~DeserField(FieldOf(sec, q), tree[sec].tbl).ok}}
           : sec \in SectionSet \cap DOMAIN tree}

\* raw.clone().try_deserialize(): err is the error returned when it fails
try_deserialize(tree, err) ==
    [ok |-> Deserialize(tree).ok, p |-> Deserialize(tree).p, err |-> err]

NoP == Enumerated([sec \in SectionSet |-> NoSection(sec)])

(***************************************************************************)
(* StratumConfig<Raw>::parse                                                *)
(***************************************************************************)
\* the UTF-8 width of a character: str::len counts bytes
Utf8Width(c) == IF c = "é" THEN 2 ELSE 1

RECURSIVE Utf8Len(_)
Utf8Len(s) == IF Len(s) = 0 THEN 0 ELSE Utf8Width(Ch(s, 1)) + Utf8Len(SubSeq(s, 2, Len(s)))

ParseOk == [ok |-> TRUE, err |-> ""]
ParseErr(msg) == [ok |-> FALSE, err |-> msg]

\* variant: the check that fee requires fee_address left out
StratumParse_no_fee_check(s) ==
    LET network == s["network"].s
        bootstrap == IsSome(s["bootstrap_address"])
                        /\ ParseAddress(s["bootstrap_address"].s, network)
        donation == IsSome(s["donation_address"])
                        /\ ParseAddress(s["donation_address"].s, network)
        fee == IsSome(s["fee_address"]) /\ ParseAddress(s["fee_address"].s, network)
    IN  IF IsSome(s["pool_signature"])
            /\ Utf8Len(s["pool_signature"].s) > MAX_POOL_SIGNATURE_LENGTH
        THEN ParseErr("Pool signature exceeds max length")
        ELSE IF IsSome(s["bootstrap_address"]) /\ ~bootstrap
        THEN ParseErr("Invalid bootstrap_address")
        ELSE IF IsSome(s["donation_address"]) /\ ~donation
        THEN ParseErr("Invalid donation_address")
        ELSE IF IsSome(s["donation"]) /\ ~donation
        THEN ParseErr("donation_address is required when donation is set")
        ELSE IF IsSome(s["fee_address"]) /\ ~fee
        THEN ParseErr("Invalid fee_address")
        ELSE ParseOk

\* variant: the length of the signature counted in characters
StratumParse_chars(s) ==
    LET network == s["network"].s
        bootstrap == IsSome(s["bootstrap_address"])
                        /\ ParseAddress(s["bootstrap_address"].s, network)
        donation == IsSome(s["donation_address"])
                        /\ ParseAddress(s["donation_address"].s, network)
        fee == IsSome(s["fee_address"]) /\ ParseAddress(s["fee_address"].s, network)
    IN  IF IsSome(s["pool_signature"])
            /\ Len(s["pool_signature"].s) > MAX_POOL_SIGNATURE_LENGTH
        THEN ParseErr("Pool signature exceeds max length")
        ELSE IF IsSome(s["bootstrap_address"]) /\ ~bootstrap
        THEN ParseErr("Invalid bootstrap_address")
        ELSE IF IsSome(s["donation_address"]) /\ ~donation
        THEN ParseErr("Invalid donation_address")
        ELSE IF IsSome(s["donation"]) /\ ~donation
        THEN ParseErr("donation_address is required when donation is set")
        ELSE IF IsSome(s["fee_address"]) /\ ~fee
        THEN ParseErr("Invalid fee_address")
        ELSE IF IsSome(s["fee"]) /\ ~fee
        THEN ParseErr("fee_address is required when fee is set")
        ELSE ParseOk

\* s: the fields of the deserialized StratumConfig<Raw>
StratumParse(s) ==
    LET network == s["network"].s
        bootstrap == IsSome(s["bootstrap_address"])
                        /\ ParseAddress(s["bootstrap_address"].s, network)
        donation == IsSome(s["donation_address"])
                        /\ ParseAddress(s["donation_address"].s, network)
        fee == IsSome(s["fee_address"]) /\ ParseAddress(s["fee_address"].s, network)
    IN  IF IsSome(s["pool_signature"])
            /\ Utf8Len(s["pool_signature"].s) > MAX_POOL_SIGNATURE_LENGTH
        THEN ParseErr("Pool signature exceeds max length")
        ELSE IF IsSome(s["bootstrap_address"]) /\ ~bootstrap
        THEN ParseErr("Invalid bootstrap_address")
        ELSE IF IsSome(s["donation_address"]) /\ ~donation
        THEN ParseErr("Invalid donation_address")
        ELSE IF IsSome(s["donation"]) /\ ~donation
        THEN ParseErr("donation_address is required when donation is set")
        ELSE IF IsSome(s["fee_address"]) /\ ~fee
        THEN ParseErr("Invalid fee_address")
        ELSE IF IsSome(s["fee"]) /\ ~fee
        THEN ParseErr("fee_address is required when fee is set")
        ELSE ParseOk

(***************************************************************************)
(* FLATTENER                                                                *)
(***************************************************************************)
\* push: one ConfigEntry appended
push(s, k, v, is_default) ==
    << [section |-> s, key |-> k, value |-> v, is_default |-> is_default] >>

\* variant: an empty entry pushed for None
opt_always(s, k, v, rendered, is_default) ==
    push(s, k, IF IsSome(v) THEN rendered ELSE "", is_default)

\* opt: an entry only for Some(v); render is the map applied to the value
opt(s, k, v, rendered, is_default) ==
    IF IsSome(v) THEN push(s, k, rendered, is_default) ELSE << >>

\* variant: the hundredths printed without their leading zero
FormatBasisPoints_unpadded(v) ==
    IF v % 100 = 0
    THEN UIntToString(v) \o " bp (" \o UIntToString(v \div 100) \o "%)"
    ELSE UIntToString(v) \o " bp (" \o UIntToString(v \div 100) \o "."
            \o UIntToString(v % 100) \o "%)"

\* the closure of the donation and fee entries: basis points and percentage
FormatBasisPoints(v) ==
    IF v % 100 = 0
    THEN UIntToString(v) \o " bp (" \o UIntToString(v \div 100) \o "%)"
    ELSE UIntToString(v) \o " bp (" \o UIntToString(v \div 100) \o "."
            \o PadLeft(UIntToString(v % 100), 2, "0") \o "%)"

FlattenNetwork(n, network_section_present) ==
    LET n_m(k, v, default_val) == push("network", k, v, ~network_section_present /\ default_val)
        num(k, d) == n_m(k, UIntToString(n[k].n), n[k].n = d)
    IN  n_m("listen_address", n["listen_address"].s, n["listen_address"].s = "")
        \o n_m("dial_peers", Join(n["dial_peers"].a, ", "), Len(n["dial_peers"].a) = 0)
        \o num("max_pending_incoming", 10)
        \o num("max_pending_outgoing", 10)
        \o num("max_established_incoming", 50)
        \o num("max_established_outgoing", 50)
        \o n_m("max_established_per_peer", UIntToString(n["max_established_per_peer"].n),
               ~network_section_present /\ n["max_established_per_peer"].n = 1)
        \o num("max_workbase_per_second", 10)
        \o num("max_userworkbase_per_second", 10)
        \o num("max_miningshare_per_second", 100)
        \o num("max_inventory_per_second", 100)
        \o num("max_transaction_per_second", 100)
        \o num("rate_limit_window_secs", 1)
        \o num("max_requests_per_second", 1)
        \o num("peer_inactivity_timeout_secs", 60)
        \o num("dial_timeout_secs", 30)

FlattenStore(s) ==
    push("store", "path", s["path"].s, s["path"].s = "./store.db")
    \o push("store", "background_task_frequency_hours",
            UIntToString(s["background_task_frequency_hours"].n),
            s["background_task_frequency_hours"].n = 1)
    \o push("store", "pplns_ttl_days", UIntToString(s["pplns_ttl_days"].n),
            s["pplns_ttl_days"].n = 7)

FlattenStratum(stratum, stratum_section_present) ==
    LET stratum_m(k, v, d) == push("stratum", k, v, ~stratum_section_present /\ d)
    IN  stratum_m("hostname", stratum["hostname"].s, stratum["hostname"].s = "0.0.0.0")
        \o stratum_m("port", UIntToString(stratum["port"].n), stratum["port"].n = 3333)
        \o stratum_m("start_difficulty", UIntToString(stratum["start_difficulty"].n),
                     stratum["start_difficulty"].n = 10000)
        \o stratum_m("minimum_difficulty", UIntToString(stratum["minimum_difficulty"].n),
                     stratum["minimum_difficulty"].n = 100)
        \o opt("stratum", "maximum_difficulty", stratum["maximum_difficulty"],
               UIntToString(stratum["maximum_difficulty"].n), FALSE)
        \o opt("stratum", "solo_address", stratum["solo_address"],
               stratum["solo_address"].s, FALSE)
        \o stratum_m("zmqpubhashblock", stratum["zmqpubhashblock"].s,
                     stratum["zmqpubhashblock"].s = "tcp://127.0.0.1:28332")
        \o opt("stratum", "bootstrap_address", stratum["bootstrap_address"],
               stratum["bootstrap_address"].s, FALSE)
        \o opt("stratum", "donation_address", stratum["donation_address"],
               stratum["donation_address"].s, FALSE)
        \o opt("stratum", "donation", stratum["donation"],
               FormatBasisPoints(stratum["donation"].n), FALSE)
        \o opt("stratum", "fee_address", stratum["fee_address"],
               stratum["fee_address"].s, FALSE)
        \o opt("stratum", "fee", stratum["fee"], FormatBasisPoints(stratum["fee"].n), FALSE)
        \o stratum_m("network", ToLower(stratum["network"].s), stratum["network"].s = "Signet")
        \o stratum_m("version_mask", FormatHex08(stratum["version_mask"].n),
                     stratum["version_mask"].n = 536862720)
        \o stratum_m("difficulty_multiplier", FormatFloat1(stratum["difficulty_multiplier"].n),
                     stratum["difficulty_multiplier"].n = 10)
        \o opt("stratum", "ignore_difficulty", stratum["ignore_difficulty"],
               IF stratum["ignore_difficulty"].n = 1 THEN "true" ELSE "false", FALSE)
        \o opt("stratum", "pool_signature", stratum["pool_signature"],
               stratum["pool_signature"].s, FALSE)

FlattenMiner(m) ==
    IF ~CompressedPublicKey_from_str(m["pubkey"].s)
    THEN push("miner", "pubkey", "<invalid pubkey>", FALSE)
    ELSE push("miner", "pubkey", m["pubkey"].s, FALSE)

FlattenBitcoinRpc(b) ==
    push("bitcoinrpc", "url", b["url"].s, b["url"].s = "http://127.0.0.1:38332")
    \o push("bitcoinrpc", "username", b["username"].s, b["username"].s = "p2pool")
    \o push("bitcoinrpc", "password",
            IF b["password"].s = "" THEN "<empty>" ELSE "*****", FALSE)

FlattenLogging(l, logging_section_present) ==
    LET l_m(k, v, d) == push("logging", k, v, ~logging_section_present /\ d)
    IN  opt("logging", "file", l["file"], l["file"].s, FALSE)
        \o l_m("level", l["level"].s, l["level"].s = "info")
        \o l_m("stats_dir", l["stats_dir"].s, l["stats_dir"].s = "./logs/stats")

FlattenApi(a) ==
    push("api", "hostname", a["hostname"].s, a["hostname"].s = "127.0.0.1")
    \o push("api", "port", UIntToString(a["port"].n), FALSE)
    \o opt("api", "auth_user", a["auth_user"], a["auth_user"].s, FALSE)
    \o opt("api", "auth_token", a["auth_token"], "*****", FALSE)

flatten(cfg, network_section_present, stratum_section_present, logging_section_present) ==
    FlattenNetwork(cfg["network"].f, network_section_present)
    \o (IF cfg["store"].some THEN FlattenStore(cfg["store"].f) ELSE << >>)
    \o (IF cfg["stratum"].some
        THEN FlattenStratum(cfg["stratum"].f, stratum_section_present) ELSE << >>)
    \o (IF cfg["miner"].some THEN FlattenMiner(cfg["miner"].f) ELSE << >>)
    \o (IF cfg["bitcoinrpc"].some THEN FlattenBitcoinRpc(cfg["bitcoinrpc"].f) ELSE << >>)
    \o FlattenLogging(cfg["logging"].f, logging_section_present)
    \o (IF cfg["api"].some THEN FlattenApi(cfg["api"].f) ELSE << >>)

(***************************************************************************)
(* The files and environments the resolver is run on: a template file,     *)
(* changed by at most MaxEdits edits (a line set, a line removed, a header *)
(* or a comment added, an environment variable set).                       *)
(***************************************************************************)
TB1_A == "tb1qyazxde6558qj6z3d9np5e6msmrspwpf6k0qggk"
TB1_B == "tb1qw508d6qejxtdg4y5r3zarvary0c5xw7kxpjzsx"
BC1_A == "bc1qw508d6qejxtdg4y5r3zarvary0c5xw7kv8f3t4"
BCRT1_A == "bcrt1qw508d6qejxtdg4y5r3zarvary0c5xw7kygt080"
LEGACY_TEST == "mipcBbFg9gMiCh81Kj8tqqdgoZub1ZJRfn"
\* the address of tests::wrong_network_address_is_rejected: its checksum is
\* the one of the bcrt1 address, so it is not a well-formed bc1 address
BC1_BAD_CHECKSUM == "bc1qw508d6qejxtdg4y5r3zarvary0c5xw7kygt080"
PUBKEY_OK == "020202020202020202020202020202020202020202020202020202020202020202"
PUBKEY_OFF_CURVE == "020505050505050505050505050505050505050505050505050505050505050505"
\* the generator of the curve in its 65-byte form
PUBKEY_UNCOMPRESSED ==
    "0479be667ef9dcbbac55a06295ce870b07029bfcdb2dce28d959f2815b16f81798"
        \o "483ada7726a3c4655da4fbfc0e1108a8fd17b448a68554199c47d08ffb10d4b8"

AddressInputs == {TB1_A, BC1_A, BCRT1_A, LEGACY_TEST, BC1_BAD_CHECKSUM, "invalid"}

SignatureInputs ==
    {"TestPool", "0123456789abcdef", "0123456789abcdefg", "ThisIsWayTooLongForASignature",
     "éééééééé", "ééééééééé"}

Tbl(pairs) == Enumerated([k \in {q[1] : q \in pairs} |-> (CHOOSE q \in pairs : q[1] = k)[2]])

NoTables == Enumerated([s \in SectionSet |-> EmptyTable])

\* tests::loads_and_flattens_full_config
FullConfig ==
    [exists |-> TRUE, readable |-> TRUE, toml_ok |-> TRUE,
     headers |-> SectionSet, stray |-> {},
     tables |->
       [network |-> Tbl({<<"listen_address", VStr("/ip4/127.0.0.1/tcp/6884")>>,
                         <<"dial_peers", VArr(<<"p1", "p2">>)>>}),
        store |-> Tbl({<<"path", VStr("./store.db")>>,
                       <<"background_task_frequency_hours", VInt(24)>>,
                       <<"pplns_ttl_days", VInt(7)>>}),
        stratum |-> Tbl({<<"hostname", VStr("0.0.0.0")>>, <<"port", VInt(3333)>>,
                         <<"start_difficulty", VInt(10000)>>,
                         <<"minimum_difficulty", VInt(100)>>,
                         <<"maximum_difficulty", VInt(1000000)>>,
                         <<"solo_address", VStr(TB1_A)>>,
                         <<"bootstrap_address", VStr(TB1_A)>>,
                         <<"donation_address", VStr(TB1_B)>>,
                         <<"donation", VInt(100)>>,
                         <<"fee_address", VStr(TB1_A)>>,
                         <<"fee", VInt(50)>>,
                         <<"zmqpubhashblock", VStr("tcp://127.0.0.1:28332")>>,
                         <<"network", VStr("signet")>>,
                         <<"version_mask", VStr("1fffe000")>>,
                         <<"difficulty_multiplier", VFloat(10)>>,
                         <<"ignore_difficulty", VBool(TRUE)>>,
                         <<"pool_signature", VStr("TestPool")>>}),
        miner |-> Tbl({<<"pubkey", VStr(PUBKEY_OK)>>}),
        bitcoinrpc |-> Tbl({<<"url", VStr("http://127.0.0.1:38332")>>,
                            <<"username", VStr("user")>>,
                            <<"password", VStr("pass")>>}),
        logging |-> Tbl({<<"file", VStr("./logs/p2pool.log")>>,
                         <<"level", VStr("debug")>>,
                         <<"stats_dir", VStr("./logs/stats")>>}),
        api |-> Tbl({<<"hostname", VStr("127.0.0.1")>>, <<"port", VInt(46884)>>,
                     <<"auth_user", VStr("admin")>>,
                     <<"auth_token", VStr("token")>>})]]

\* tests::minimal_config_uses_defaults
MinimalConfig ==
    [exists |-> TRUE, readable |-> TRUE, toml_ok |-> TRUE,
     headers |-> {"stratum"}, stray |-> {},
     tables |-> [NoTables EXCEPT !["stratum"] =
                    Tbl({<<"network", VStr("signet")>>,
                         <<"version_mask", VStr("1fffe000")>>,
                         <<"zmqpubhashblock", VStr("tcp://127.0.0.1:28332")>>})]]

\* a stratum section for the main network
MainnetConfig ==
    [exists |-> TRUE, readable |-> TRUE, toml_ok |-> TRUE,
     headers |-> {"stratum"}, stray |-> {},
     tables |-> [NoTables EXCEPT !["stratum"] =
                    Tbl({<<"network", VStr("main")>>,
                         <<"bootstrap_address", VStr(BC1_A)>>,
                         <<"donation_address", VStr(BC1_A)>>,
                         <<"donation", VInt(150)>>,
                         <<"fee_address", VStr(BC1_A)>>})]]

\* tests::non_p2pool_file_fails: a TOML file without any of the sections
ForeignFile ==
    [exists |-> TRUE, readable |-> TRUE, toml_ok |-> TRUE,
     headers |-> {}, stray |-> {}, tables |-> NoTables]

\* no file at the path
MissingFile ==
    [exists |-> FALSE, readable |-> FALSE, toml_ok |-> FALSE,
     headers |-> {}, stray |-> {}, tables |-> NoTables]

Templates == {FullConfig, MinimalConfig, MainnetConfig, ForeignFile, MissingFile}

LowerToUpper(c) ==
    IF \E u \in DOMAIN UpperToLower : UpperToLower[u] = c
    THEN CHOOSE u \in DOMAIN UpperToLower : UpperToLower[u] = c
    ELSE c

RECURSIVE ToUpper(_)
ToUpper(s) ==
    IF Len(s) = 0 THEN "" ELSE LowerToUpper(Ch(s, 1)) \o ToUpper(SubSeq(s, 2, Len(s)))

AllFields ==
    NetworkConfig \o StoreConfig \o StratumConfig \o MinerConfig \o BitcoinRpcConfig
        \o LoggingConfig \o ApiConfig
FieldSet == {AllFields[i] : i \in 1..Len(AllFields)}

AddressKeys == {"solo_address", "bootstrap_address", "donation_address", "fee_address"}

\* the values a line of the file may give to a field
Candidates(field) ==
    CASE field.key \in AddressKeys -> {VStr(a) : a \in AddressInputs}
      [] field.key = "pool_signature" -> {VStr(a) : a \in SignatureInputs}
      [] field.kind = "Network" ->
            {VStr(a) : a \in {"main", "test", "signet", "regtest", "Signet", "mainnet"}}
      [] field.kind = "VersionMask" ->
            {VStr(a) : a \in {"1fffe000", "1FFFE000", "ffffffff", "zz"}}
      [] field.key = "pubkey" ->
            {VStr(PUBKEY_OK), VStr(PUBKEY_OFF_CURVE), VStr(PUBKEY_UNCOMPRESSED), VStr("nothex")}
      [] field.key \in {"password", "auth_token"} ->
            {VStr(""), VStr("pass"), VStr("a-much-longer-secret")}
      [] field.key = "listen_address" ->
            {VStr(default_listen_address), VStr(""), VStr("/ip4/127.0.0.1/tcp/6884")}
      [] field.kind = "VecString" -> {VArr(<<>>), VArr(<<"p1", "p2">>)}
      [] field.kind = "f64" -> {VFloat(10), VFloat(25)}
      [] field.kind = "bool" -> {VBool(TRUE), VBool(FALSE)}
      [] field.key \in {"donation", "fee"} -> {VInt(100), VInt(150)}
      [] field.key = "maximum_difficulty" -> {VInt(1000000)}
      [] field.sec = "api" /\ field.key = "port" -> {VInt(46884), VInt(3333)}
      [] field.kind \in {"u16", "u32", "u64"} -> {field.dflt, VInt(field.dflt.n + 1)}
      [] field.sec = "store" /\ field.key = "path" -> {VStr("./store.db"), VStr("/var/p2pool")}
      [] field.key = "url" -> {VStr("http://127.0.0.1:38332"), VStr("http://10.0.0.1:8332")}
      [] field.key = "username" -> {VStr("p2pool"), VStr("user")}
      [] field.sec = "api" /\ field.key = "hostname" -> {VStr("127.0.0.1"), VStr("10.0.0.1")}
      [] field.key = "file" -> {VStr("./logs/p2pool.log")}
      [] field.key = "auth_user" -> {VStr("admin")}
      [] OTHER -> {field.dflt, VStr("other")}

\* the name P2POOL_<SECTION>_<FIELD> of the variable meant to override a field
EnvName(field) == "P2POOL_" \o ToUpper(field.sec) \o "_" \o ToUpper(field.key)

\* the text of a value when it is given in the environment
EnvText(v) ==
    CASE v.t = "str" -> v.s
      [] v.t = "int" -> UIntToString(v.n)
      [] v.t = "bool" -> IF v.n = 1 THEN "true" ELSE "false"
      [] v.t = "float" -> FloatToString(v.n)
      [] OTHER -> Join(v.a, ",")

\* the variables the environment may hold: an override of a field, a variable of
\* the prefix that names no field, a lower-case spelling, an unrelated variable
EnvCandidates ==
    UNION {{<<EnvName(f), EnvText(v)>> : v \in Candidates(f)} : f \in FieldSet}
    \cup {<<"P2POOL_FOO_BAR", "1">>, <<"p2pool_stratum_port", "7777">>,
          <<"P2POOL_STRATUM", "x">>, <<"HOME", "/root">>}

\* the Result returned by a resolver; validated and flattened record, for the
\* pool-service resolver, how many StratumConfig::parse calls returned Ok and
\* whether flatten was called
NoRet == [kind |-> "none", err |-> "", entries |-> << >>, validated |-> 0, flattened |-> FALSE]
Ok(entries) == [NoRet EXCEPT !.kind = "ok", !.entries = entries]
Err(msg) == [NoRet EXCEPT !.kind = "err", !.err = msg]


(***************************************************************************)
(* The pool-service resolver.                                               *)
(***************************************************************************)
\* variant: the sections looked for in the parsed file instead of in its text
looks_like_p2pool_parsed(f, e) ==
    \/ env_override_present(e)
    \/ f.exists /\ f.readable /\ FileSections(f) # {}

looks_like_p2pool(f, e) ==
    \/ env_override_present(e)
    \/ \E sec \in {"stratum", "store", "network", "logging", "api", "miner", "bitcoinrpc"} :
            RawTextContains(f, sec)

\* cfg.build(): the file, when it exists, and then the environment
BuildOk(f) == ~f.exists \/ (f.readable /\ f.toml_ok)
Build(f, e, order) == ApplyEnv(IF f.exists THEN FileTree(f) ELSE EmptyTree, e, order)

\* path.display()
PathDisplay == "config.toml"

\* variant: the result of StratumConfig::parse not propagated
Outcome_unchecked(f, e, d, v) ==
    IF ~looks_like_p2pool(f, e)
    THEN [ret |-> Err("Invalid P2Pool config: not a p2pool configuration"), p |-> NoP]
    ELSE IF ~BuildOk(f)
    THEN [ret |-> Err("configuration source could not be loaded"), p |-> NoP]
    ELSE IF ~d.ok
    THEN [ret |-> Err("Failed to deserialize config: " \o d.err \o "\nFile: " \o PathDisplay),
          p |-> NoP]
    ELSE [ret |-> [Ok(flatten(d.p, RawTextContains(f, "network"),
                              RawTextContains(f, "stratum"),
                              RawTextContains(f, "logging")))
                   EXCEPT !.validated = IF d.p["stratum"].some /\ v.ok THEN 1 ELSE 0,
                          !.flattened = TRUE],
          p |-> d.p]

\* parse_config after cfg.build(): d is the result of try_deserialize, v the
\* result of StratumConfig::parse on its stratum section
Outcome(f, e, d, v) ==
    IF ~looks_like_p2pool(f, e)
    THEN [ret |-> Err("Invalid P2Pool config: not a p2pool configuration"), p |-> NoP]
    ELSE IF ~BuildOk(f)
    THEN [ret |-> Err("configuration source could not be loaded"), p |-> NoP]
    ELSE IF ~d.ok
    THEN [ret |-> Err("Failed to deserialize config: " \o d.err \o "\nFile: " \o PathDisplay),
          p |-> NoP]
    ELSE IF d.p["stratum"].some /\ ~v.ok
    THEN [ret |-> Err(v.err), p |-> d.p]
    ELSE [ret |-> [Ok(flatten(d.p, RawTextContains(f, "network"),
                              RawTextContains(f, "stratum"),
                              RawTextContains(f, "logging")))
                   EXCEPT !.validated = IF d.p["stratum"].some THEN 1 ELSE 0,
                          !.flattened = TRUE],
          p |-> d.p]

\* the outcome of parse_config(path): the returned value and the deserialized
\* P2PoolConfig (when that step is reached).  order is the order in which the
\* environment is iterated, err the error of try_deserialize when it fails.
parse_config(f, e, order, err) ==
    Only({ Only({ Outcome(f, e, d, v) : v \in {StratumParse(d.p["stratum"].f)} })
            : d \in {try_deserialize(Build(f, e, order), err)} })

\* the errors the deserialization of the merged sources can return, "" when
\* it succeeds
DeserOutcomes(f, e, order) ==
    IF Deserialize(Build(f, e, order)).ok THEN {""} ELSE DeserErrors(Build(f, e, order))

(***************************************************************************)
(* The edits that prepare the inputs of the pool-service resolver.         *)
(***************************************************************************)
Editable == pc = "start" /\ edits < MaxEdits /\ file.exists /\ file.readable /\ file.toml_ok

Edited(f) ==
    /\ file' = f
    /\ edits' = edits + 1
    /\ UNCHANGED <<env, pc, p, ret, daemonVars, fnVars, uiVars>>

\* a line "key = value" written in the section, under its header "[sec]" when
\* the section is new
SetLine ==
    /\ Editable
    /\ \E f \in FieldSet : \E v \in Candidates(f) :
        Edited([file EXCEPT
                  !.tables[f.sec] = Put(@, f.key, v),
                  !.headers = IF f.sec \in FileSections(file) THEN @ ELSE @ \cup {f.sec}])

\* a line removed from the file
RemoveLine ==
    /\ Editable
    /\ \E sec \in SectionSet : \E k \in DOMAIN file.tables[sec] :
        Edited([file EXCEPT !.tables[sec] = Del(@, k)])

\* the header of a section added (an empty section when it has no line)
AddHeader ==
    /\ Editable
    /\ \E sec \in SectionSet \ file.headers :
        Edited([file EXCEPT !.headers = @ \cup {sec}])

\* a section rewritten without its literal header: dotted keys, "[ sec ]"
WriteHeaderless ==
    /\ Editable
    /\ \E sec \in file.headers :
        /\ DOMAIN file.tables[sec] # {}
        /\ Edited([file EXCEPT !.headers = @ \ {sec}])

\* the marker of a section written in a comment
AddComment ==
    /\ Editable
    /\ \E sec \in SectionSet \ file.stray :
        Edited([file EXCEPT !.stray = @ \cup {sec}])

\* the text damaged so that it is no longer TOML
Corrupt ==
    /\ Editable
    /\ Edited([file EXCEPT !.toml_ok = FALSE])

\* the path made unreadable (a directory, bytes that are not UTF-8)
MakeUnreadable ==
    /\ Editable
    /\ Edited([file EXCEPT !.readable = FALSE])

\* std::env::set_var before the resolver is called
SetEnv ==
    /\ pc = "start"
    /\ edits < MaxEdits
    /\ \E nv \in EnvCandidates :
        /\ env' = Put(env, nv[1], nv[2])
        /\ edits' = edits + 1
        /\ UNCHANGED <<file, pc, p, ret, daemonVars, fnVars, uiVars>>

\* the call parse_config(path) of the pool-service resolver
ParseConfig ==
    /\ pc = "start"
    /\ \E order \in Orders(DOMAIN env) : \E err \in DeserOutcomes(file, env, order) :
       \E r \in {parse_config(file, env, order, err)} :
        /\ ret' = r.ret
        /\ p' = r.p
    /\ pc' = "done"
    /\ UNCHANGED <<edits, file, env, daemonVars, fnVars, uiVars>>

(***************************************************************************)
(* The daemon resolver (config.rs).                                         *)
(*                                                                         *)
(* A daemon file is described by: exists (Path::exists), ini_ok (the text  *)
(* loads as INI), global (the keys before any section header) and scopes   *)
(* (section name -> its keys).  Every INI value is a string.               *)
(***************************************************************************)
\* the schema registry: key, default value, expected kind
schema_list == <<
    [key |-> "txindex", default |-> "0", kind |-> "Bool"],
    [key |-> "regtest", default |-> "0", kind |-> "Bool"],
    [key |-> "maxconnections", default |-> "125", kind |-> "Int"],
    [key |-> "rpcport", default |-> "8332", kind |-> "Int"],
    [key |-> "datadir", default |-> "", kind |-> "String"] >>

SchemaKeys == {schema_list[i].key : i \in 1..Len(schema_list)}

\* let sections = vec!["", "main", "test", "signet", "regtest"]
sections == <<"", "main", "test", "signet", "regtest">>

NoScopes == Enumerated([k \in {} |-> EmptyTable])

\* File::from(path).format(FileFormat::Ini): the root map of the configuration.
\* The keys of the general section are inserted first, then one table per
\* section under the section's name, replacing a global key of that name.
IniTree(c) ==
    Enumerated([k \in (DOMAIN c.global) \cup (DOMAIN c.scopes) |->
        IF k \in DOMAIN c.scopes
        THEN [v |-> Table,
              tbl |-> Enumerated([key \in DOMAIN c.scopes[k] |-> VStr(c.scopes[k][key])])]
        ELSE [v |-> VStr(c.global[k]), tbl |-> EmptyTable]])

\* Config::get::<Value>(key): the key is a path expression, "a" or "a.b"
Lookup(root, key) ==
    LET path == Split(key, ".")
    IN  IF HasEmptySegment(path) \/ Len(path) > 2 THEN DeErr
        ELSE IF path[1] \notin DOMAIN root THEN DeErr
        ELSE IF Len(path) = 1
             THEN (IF root[path[1]].v.t = "table" THEN DeOk(Table) ELSE DeOk(root[path[1]].v))
        ELSE IF root[path[1]].v.t = "table" /\ path[2] \in DOMAIN root[path[1]].tbl
             THEN DeOk(root[path[1]].tbl[path[2]])
        ELSE DeErr

\* Config::get_table: the keys of the table at the path
get_table(root, key) ==
    LET path == Split(key, ".")
    IN  IF HasEmptySegment(path) \/ Len(path) # 1 THEN [ok |-> FALSE, keys |-> {}]
        ELSE IF path[1] \in DOMAIN root /\ root[path[1]].v.t = "table"
             THEN [ok |-> TRUE, keys |-> DOMAIN root[path[1]].tbl]
        ELSE [ok |-> FALSE, keys |-> {}]

\* Config::get_string, get_bool, get_int, get_float
get_string(root, key) ==
    Only({ IF v.ok THEN IntoString(v.v) ELSE DeErr : v \in {Lookup(root, key)} })
get_bool(root, key) ==
    Only({ IF v.ok THEN IntoBool(v.v) ELSE DeErr : v \in {Lookup(root, key)} })
get_int(root, key) ==
    Only({ IF v.ok THEN IntoUInt(v.v, Unbounded) ELSE DeErr : v \in {Lookup(root, key)} })
get_float(root, key) ==
    Only({ IF v.ok THEN IntoFloat(v.v) ELSE DeErr : v \in {Lookup(root, key)} })

\* the value read at one lookup key by the four attempts of the schema loop,
\* in their order: string, bool, int, float
ReadValue(root, lookup_key) ==
    IF get_string(root, lookup_key).ok
    THEN [found |-> TRUE, value |-> get_string(root, lookup_key).v.s]
    ELSE IF get_bool(root, lookup_key).ok
    THEN [found |-> TRUE, value |-> IF get_bool(root, lookup_key).v.n = 1 THEN "1" ELSE "0"]
    ELSE IF get_int(root, lookup_key).ok
    THEN [found |-> TRUE, value |-> UIntToString(get_int(root, lookup_key).v.n)]
    ELSE IF get_float(root, lookup_key).ok
    THEN [found |-> TRUE, value |-> FloatToString(get_float(root, lookup_key).v.n)]
    ELSE [found |-> FALSE, value |-> ""]

lookup_key(section, key) == IF section = "" THEN key ELSE section \o "." \o key

\* the loop "for section in &sections" of one schema key, from section index i:
\* the first section whose lookup succeeds decides the value
RECURSIVE Resolve(_, _, _)
Resolve(root, schema, i) ==
    IF i > Len(sections) THEN [value |-> schema.default, enabled |-> FALSE]
    ELSE IF ReadValue(root, lookup_key(sections[i], schema.key)).found
    THEN [value |-> ReadValue(root, lookup_key(sections[i], schema.key)).value, enabled |-> TRUE]
    ELSE Resolve(root, schema, i + 1)

\* entries after "for schema in &schema_list"
SchemaEntries(root) ==
    [i \in 1..Len(schema_list) |->
        [key |-> schema_list[i].key,
         value |-> Resolve(root, schema_list[i], 1).value,
         schema |-> TRUE,
         enabled |-> Resolve(root, schema_list[i], 1).enabled]]

found_keys(root) ==
    {schema_list[i].key : i \in {j \in 1..Len(schema_list) : Resolve(root, schema_list[j], 1).enabled}}

\* key.split('.').next_back().unwrap_or(key)
actual_key(key) == Split(key, ".")[Len(Split(key, "."))]

\* config_keys: the last path segment of every key of every section table
config_keys(root) ==
    UNION {{actual_key(k) : k \in get_table(root, sections[i]).keys} : i \in 1..Len(sections)}

\* the value shown for a key without schema
UnknownValue(root, config_key) ==
    IF get_string(root, config_key).ok THEN get_string(root, config_key).v.s
    ELSE IF get_bool(root, config_key).ok
    THEN (IF get_bool(root, config_key).v.n = 1 THEN "1" ELSE "0")
    ELSE IF get_int(root, config_key).ok THEN UIntToString(get_int(root, config_key).v.n)
    ELSE IF get_float(root, config_key).ok THEN FloatToString(get_float(root, config_key).v.n)
    ELSE ""

\* entries appended by "for config_key in &config_keys", the HashSet being
\* iterated in the given order
UnknownEntries(root, order) ==
    [i \in 1..Len(order) |->
        [key |-> order[i], value |-> UnknownValue(root, order[i]),
         schema |-> FALSE, enabled |-> TRUE]]

DefaultEntries ==
    [i \in 1..Len(schema_list) |->
        [key |-> schema_list[i].key, value |-> schema_list[i].default,
         schema |-> TRUE, enabled |-> FALSE]]

\* the orders in which the HashSet config_keys can be iterated, restricted to
\* the keys that are not in found_keys
UnknownOrders(c) == Orders(config_keys(IniTree(c)) \ found_keys(IniTree(c)))

\* parse_config(path) of the daemon resolver
daemon_parse_config(c, order) ==
    IF c.exists /\ ~c.ini_ok THEN Ok(DefaultEntries)
    ELSE Only({ Ok(SchemaEntries(root) \o UnknownEntries(root, order))
                : root \in {IF c.exists THEN IniTree(c) ELSE EmptyTree} })

(***************************************************************************)
(* Daemon files: a few files and the edits a user makes to them.            *)
(***************************************************************************)
MissingConf == [exists |-> FALSE, ini_ok |-> FALSE, global |-> EmptyTable, scopes |-> NoScopes]
NoConf == MissingConf

EmptyConf == [exists |-> TRUE, ini_ok |-> TRUE, global |-> EmptyTable, scopes |-> NoScopes]

StrTbl(pairs) == Enumerated([k \in {q[1] : q \in pairs} |-> (CHOOSE q \in pairs : q[1] = k)[2]])

\* txindex=1 / [main] maxconnections=10 / [test] maxconnections=5, rpcport=18332
ScopedConf ==
    [exists |-> TRUE, ini_ok |-> TRUE,
     global |-> StrTbl({<<"txindex", "1">>}),
     scopes |-> Enumerated([sec \in {"main", "test"} |->
        IF sec = "main" THEN StrTbl({<<"maxconnections", "10">>})
        ELSE StrTbl({<<"maxconnections", "5">>, <<"rpcport", "18332">>})])]

\* regtest=1 / [regtest] rpcport=18443
RegtestConf ==
    [exists |-> TRUE, ini_ok |-> TRUE,
     global |-> StrTbl({<<"regtest", "1">>}),
     scopes |-> Enumerated([sec \in {"regtest"} |-> StrTbl({<<"rpcport", "18443">>})])]

\* uacomment=true / [main] uacomment=7, mykey=1
CommentConf ==
    [exists |-> TRUE, ini_ok |-> TRUE,
     global |-> StrTbl({<<"uacomment", "true">>}),
     scopes |-> Enumerated([sec \in {"main"} |->
                    StrTbl({<<"uacomment", "7">>, <<"mykey", "1">>})])]

ConfTemplates == {MissingConf, EmptyConf, ScopedConf, RegtestConf, CommentConf}

ConfScopes == {"", "main", "test", "signet", "regtest"}
ConfKeys == SchemaKeys \cup {"uacomment"}
ConfValues == {"1", "7"}

ConfEditable == dpc = "start" /\ edits < MaxConfEdits /\ conf.exists /\ conf.ini_ok

\* the user writes key=value in the global scope or below a section header
SetConfKey ==
    /\ ConfEditable
    /\ \E scope \in ConfScopes, key \in ConfKeys, value \in ConfValues :
        conf' = IF scope = ""
                THEN [conf EXCEPT !.global = Put(conf.global, key, value)]
                ELSE [conf EXCEPT !.scopes = Put(conf.scopes, scope,
                        Put(IF scope \in DOMAIN conf.scopes THEN conf.scopes[scope] ELSE EmptyTable,
                            key, value))]
    /\ conf' # conf
    /\ edits' = edits + 1
    /\ UNCHANGED <<dpc, dret, poolVars, fnVars, uiVars>>

\* the user removes a key from the global scope or from a section
RemoveConfKey ==
    /\ ConfEditable
    /\ \/ \E key \in DOMAIN conf.global : conf' = [conf EXCEPT !.global = Del(conf.global, key)]
       \/ \E scope \in DOMAIN conf.scopes : \E key \in DOMAIN conf.scopes[scope] :
            conf' = [conf EXCEPT !.scopes[scope] = Del(conf.scopes[scope], key)]
    /\ edits' = edits + 1
    /\ UNCHANGED <<dpc, dret, poolVars, fnVars, uiVars>>

\* the file is damaged so that it no longer loads as INI
CorruptConf ==
    /\ ConfEditable
    /\ conf' = [conf EXCEPT !.ini_ok = FALSE]
    /\ edits' = edits + 1
    /\ UNCHANGED <<dpc, dret, poolVars, fnVars, uiVars>>

\* one call of the daemon's parse_config
ParseDaemonConfig ==
    /\ dpc = "start"
    /\ \E order \in UnknownOrders(conf) : dret' = daemon_parse_config(conf, order)
    /\ dpc' = "done"
    /\ UNCHANGED <<edits, conf, poolVars, fnVars, uiVars>>

(***************************************************************************)
(* The terminal application (app.rs, main.rs) and its file explorer         *)
(* (components/file_explorer.rs).                                           *)
(***************************************************************************)
\* Option<T>
Some(x) == [some |-> TRUE, v |-> x]
None == [some |-> FALSE, v |-> ""]

\* enum CurrentScreen
CurrentScreen == {"Home", "BitcoinConfig", "P2PoolConfig", "FileExplorer", "Exiting"}

\* the directories of the disk; "" is the empty relative path, the parent of "."
Directories == {"/", "/cfg", "/cfg/old", ".", ""}

\* Path::parent
Parent(dir) ==
    CASE dir = "/cfg" -> Some("/")
      [] dir = "/cfg/old" -> Some("/cfg")
      [] dir = "." -> Some("")
      [] OTHER -> None

\* the entries a directory always holds, and those that come and go
StableChildren(dir) ==
    CASE dir = "/" -> {"/cfg"}
      [] dir = "/cfg" -> {"/cfg/bitcoin.conf", "/cfg/p2pool.toml"}
      [] OTHER -> {}

VolatileChildren(dir) ==
    CASE dir = "/" -> {"/notes.txt", "/readme.md"}
      [] dir = "/cfg" -> {"/cfg/mainnet.toml", "/cfg/old"}
      [] dir = "/cfg/old" -> {"/cfg/old/full.toml"}
      [] dir = "." -> {"./pdm.log"}
      [] OTHER -> {}

\* fs::read_dir(dir): the entries found, or an error for the empty path
read_dir(dir) ==
    IF dir = "" THEN {[ok |-> FALSE, paths |-> {}]}
    ELSE {[ok |-> TRUE, paths |-> StableChildren(dir) \cup extra] :
            extra \in SUBSET VolatileChildren(dir)}

\* Path::is_dir
is_dir(path) == path \in Directories \ {""}

\* the paths of the disk in the order of Ord for PathBuf
PathOrder ==
    <<"/cfg", "/cfg/bitcoin.conf", "/cfg/mainnet.toml", "/cfg/old", "/cfg/old/full.toml",
      "/cfg/p2pool.toml", "/notes.txt", "/readme.md", "./pdm.log">>

\* Vec::sort on a set of paths collected from read_dir
SortPaths(S) == LET Member(x) == x \in S IN SelectSeq(PathOrder, Member)

\* PathBuf::join
PathJoin(dir, name) ==
    IF dir = "" THEN name
    ELSE IF Ch(dir, Len(dir)) = "/" THEN dir \o name
    ELSE dir \o "/" \o name

\* Path::ends_with(".."): the last component is ".."
EndsWithDotDot(path) ==
    /\ Len(path) >= 2
    /\ SubSeq(path, Len(path) - 1, Len(path)) = ".."
    /\ (Len(path) = 2 \/ Ch(path, Len(path) - 2) = "/")

\* FileExplorer::load_directory; rd is the result of fs::read_dir(current_dir)
load_directory(e, rd) ==
    [current_dir |-> e.current_dir,
     files |-> (IF Parent(e.current_dir).some
                THEN <<PathJoin(e.current_dir, "..")>> ELSE << >>)
               \o (IF rd.ok
                   THEN SortPaths({x \in rd.paths : is_dir(x)})
                            \o SortPaths({x \in rd.paths : ~is_dir(x)})
                   ELSE << >>),
     selected_index |-> 0]

\* variant: the cursor moved down without wrapping
next_no_wrap(e) ==
    IF Len(e.files) # 0
    THEN [e EXCEPT !.selected_index = e.selected_index + 1]
    ELSE e

\* FileExplorer::next
next(e) ==
    IF Len(e.files) # 0
    THEN [e EXCEPT !.selected_index = (e.selected_index + 1) % Len(e.files)]
    ELSE e

\* FileExplorer::previous
previous(e) ==
    IF Len(e.files) # 0
    THEN IF e.selected_index = 0
         THEN [e EXCEPT !.selected_index = Len(e.files) - 1]
         ELSE [e EXCEPT !.selected_index = e.selected_index - 1]
    ELSE e

\* self.files[self.selected_index]
selected(e) == e.files[e.selected_index + 1]

\* the directory FileExplorer::select moves to, current_dir when it moves nowhere
select_dir(e) ==
    IF Len(e.files) = 0 THEN e.current_dir
    ELSE IF EndsWithDotDot(selected(e))
    THEN (IF Parent(e.current_dir).some THEN Parent(e.current_dir).v ELSE e.current_dir)
    ELSE IF is_dir(selected(e)) THEN selected(e)
    ELSE e.current_dir

\* FileExplorer::select; rd is the result of fs::read_dir on the directory it
\* moves to.  Returns the explorer and the Option<PathBuf>.
select(e, rd) ==
    IF Len(e.files) = 0 THEN [explorer |-> e, result |-> None]
    ELSE IF EndsWithDotDot(selected(e))
    THEN (IF Parent(e.current_dir).some
          THEN [explorer |-> load_directory([e EXCEPT !.current_dir = Parent(e.current_dir).v], rd),
                result |-> None]
          ELSE [explorer |-> e, result |-> None])
    ELSE IF is_dir(selected(e))
    THEN [explorer |-> load_directory([e EXCEPT !.current_dir = selected(e)], rd),
          result |-> None]
    ELSE [explorer |-> e, result |-> Some(selected(e))]

\* FileExplorer::new with the working directory cwd
FileExplorer_new(cwd, rd) ==
    load_directory([current_dir |-> cwd, files |-> << >>, selected_index |-> 0], rd)

\* enum AppAction
Act(kind, screen, path) == [kind |-> kind, screen |-> screen, path |-> path]
ActNone == Act("None", "", "")
Quit == Act("Quit", "", "")
ToggleMenu == Act("ToggleMenu", "", "")
Navigate(screen) == Act("Navigate", screen, "")
OpenExplorer(screen) == Act("OpenExplorer", screen, "")
FileSelected(path) == Act("FileSelected", "", path)
CloseModal == Act("CloseModal", "", "")

\* App::new, without its explorer field (the variable explorer)
App_new ==
    [current_screen |-> "Home",
     sidebar_index |-> 0,
     explorer_trigger |-> None,
     bitcoin_conf_path |-> None,
     p2pool_conf_path |-> None,
     p2pool_data |-> << >>,
     bitcoin_data |-> << >>]

\* variant: the last sidebar item shows the daemon screen
toggle_menu_last_item(a) ==
    CASE a.sidebar_index = 0 -> [a EXCEPT !.current_screen = "Home"]
      [] a.sidebar_index = 1 -> [a EXCEPT !.current_screen = "BitcoinConfig"]
      [] a.sidebar_index = 2 -> [a EXCEPT !.current_screen = "BitcoinConfig"]
      [] OTHER -> a

\* App::toggle_menu
toggle_menu(a) ==
    CASE a.sidebar_index = 0 -> [a EXCEPT !.current_screen = "Home"]
      [] a.sidebar_index = 1 -> [a EXCEPT !.current_screen = "BitcoinConfig"]
      [] a.sidebar_index = 2 -> [a EXCEPT !.current_screen = "P2PoolConfig"]
      [] OTHER -> a

\* the process environment of the application: no variable of the prefix
AppEnv == [k \in {} |-> ""]

\* the contents of the paths, as the pool-service resolver reads them
PoolFileAt(path) ==
    CASE path = "/cfg/p2pool.toml" -> MinimalConfig
      [] path = "/cfg/mainnet.toml" -> MainnetConfig
      [] path = "/cfg/old/full.toml" -> FullConfig
      [] path = "/cfg/bitcoin.conf" -> ForeignFile
      [] path \in {"/notes.txt", "/readme.md", "./pdm.log"} -> [ForeignFile EXCEPT !.toml_ok = FALSE]
      [] OTHER -> MissingFile

\* the contents of the paths, as the daemon resolver reads them
DaemonFileAt(path) ==
    CASE path = "/cfg/bitcoin.conf" -> ScopedConf
      [] path \in {"/cfg/p2pool.toml", "/cfg/mainnet.toml", "/cfg/old/full.toml"} -> EmptyConf
      [] path \in {"/notes.txt", "/readme.md", "./pdm.log"} -> [EmptyConf EXCEPT !.ini_ok = FALSE]
      [] OTHER -> MissingConf

\* the paths an action can carry: the files of the disk and a path without file
DiskFiles ==
    {"/cfg/bitcoin.conf", "/cfg/p2pool.toml", "/cfg/mainnet.toml", "/cfg/old/full.toml",
     "/notes.txt", "/readme.md", "./pdm.log"}
ActionPaths == DiskFiles \cup {"/missing"}

\* the values parse_p2pool_config(path) can return
PoolResults ==
    [path \in ActionPaths |->
        {parse_config(PoolFileAt(path), AppEnv, order, err).ret :
            order \in Orders(DOMAIN AppEnv),
            err \in DeserOutcomes(PoolFileAt(path), AppEnv, << >>)}]

\* the values parse_bitcoin_config(path) can return
DaemonResults_at ==
    [path \in ActionPaths |->
        {daemon_parse_config(DaemonFileAt(path), order) :
            order \in UnknownOrders(DaemonFileAt(path))}]

\* variant: the trigger kept when the explorer is closed
CloseModalArm_keeps_trigger(a) ==
    IF a.explorer_trigger.some
    THEN [a EXCEPT !.current_screen = a.explorer_trigger.v]
    ELSE toggle_menu(a)

\* the arm AppAction::CloseModal of handle_action
CloseModalArm(a) ==
    [(IF a.explorer_trigger.some
      THEN [a EXCEPT !.current_screen = a.explorer_trigger.v]
      ELSE toggle_menu(a))
     EXCEPT !.explorer_trigger = None]

\* variant: the path stored for both domains
FileSelectedArm_both_paths(a, path, pool, daemon) ==
    [(IF ~a.explorer_trigger.some THEN a
      ELSE IF a.explorer_trigger.v = "P2PoolConfig"
      THEN [a EXCEPT !.p2pool_conf_path = Some(path),
                     !.bitcoin_conf_path = Some(path),
                     !.p2pool_data = IF pool.kind = "ok" THEN pool.entries ELSE @,
                     !.current_screen = "P2PoolConfig"]
      ELSE IF a.explorer_trigger.v = "BitcoinConfig"
      THEN [a EXCEPT !.bitcoin_conf_path = Some(path),
                     !.p2pool_conf_path = Some(path),
                     !.bitcoin_data = IF daemon.kind = "ok" THEN daemon.entries ELSE @,
                     !.current_screen = "BitcoinConfig"]
      ELSE a)
     EXCEPT !.explorer_trigger = None]

\* the arm AppAction::FileSelected(path) of handle_action: pool and daemon are
\* the values the two resolvers return for the path
FileSelectedArm(a, path, pool, daemon) ==
    [(IF ~a.explorer_trigger.some THEN a
      ELSE IF a.explorer_trigger.v = "P2PoolConfig"
      THEN [a EXCEPT !.p2pool_conf_path = Some(path),
                     !.p2pool_data = IF pool.kind = "ok" THEN pool.entries ELSE @,
                     !.current_screen = "P2PoolConfig"]
      ELSE IF a.explorer_trigger.v = "BitcoinConfig"
      THEN [a EXCEPT !.bitcoin_conf_path = Some(path),
                     !.bitcoin_data = IF daemon.kind = "ok" THEN daemon.entries ELSE @,
                     !.current_screen = "BitcoinConfig"]
      ELSE a)
     EXCEPT !.explorer_trigger = None]

\* variant: closing the explorer also requests the exit
ExitRequested_on_close(act) == act.kind \in {"Quit", "CloseModal"}

\* the value returned by handle_action: Ok(true) only from the arm Quit
ExitRequested(act) == act.kind = "Quit"

\* handle_action(action, app)
handle_action(act, a, pool, daemon) ==
    [app |-> CASE act.kind = "Quit" -> a
               [] act.kind = "ToggleMenu" -> toggle_menu(a)
               [] act.kind = "OpenExplorer" ->
                    [a EXCEPT !.explorer_trigger = Some(act.screen),
                              !.current_screen = "FileExplorer"]
               [] act.kind = "CloseModal" -> CloseModalArm(a)
               [] act.kind = "FileSelected" -> FileSelectedArm(a, act.path, pool, daemon)
               [] act.kind = "Navigate" -> [a EXCEPT !.current_screen = act.screen]
               [] OTHER -> a,
     exit |-> ExitRequested(act)]

\* FileExplorer::handle_input(key): Down and Up move the cursor, Enter selects,
\* Esc closes the explorer; rd is the result of fs::read_dir for select
handle_input(e, key, rd) ==
    CASE key = "Down" -> [explorer |-> next(e), action |-> ActNone]
      [] key = "Up" -> [explorer |-> previous(e), action |-> ActNone]
      [] key = "Enter" ->
            [explorer |-> select(e, rd).explorer,
             action |-> IF select(e, rd).result.some
                        THEN FileSelected(select(e, rd).result.v) ELSE ActNone]
      [] key = "Esc" -> [explorer |-> e, action |-> CloseModal]
      [] OTHER -> [explorer |-> e, action |-> ActNone]

\* the match on app.current_screen of run_app: the application and explorer
\* after the key has been looked at, and the action it stands for
key_action(a, e, key, rd) ==
    IF a.current_screen = "FileExplorer"
    THEN [app |-> a, explorer |-> handle_input(e, key, rd).explorer,
          action |-> handle_input(e, key, rd).action]
    ELSE CASE key = "Enter" ->
                [app |-> a, explorer |-> e,
                 action |-> IF a.current_screen \in {"BitcoinConfig", "P2PoolConfig"}
                            THEN OpenExplorer(a.current_screen) ELSE ActNone]
           [] key = "Down" ->
                IF a.sidebar_index < 2
                THEN [app |-> [a EXCEPT !.sidebar_index = @ + 1], explorer |-> e,
                      action |-> ToggleMenu]
                ELSE [app |-> a, explorer |-> e, action |-> ActNone]
           [] key = "Up" ->
                IF a.sidebar_index > 0
                THEN [app |-> [a EXCEPT !.sidebar_index = @ - 1], explorer |-> e,
                      action |-> ToggleMenu]
                ELSE [app |-> a, explorer |-> e, action |-> ActNone]
           [] OTHER -> [app |-> a, explorer |-> e, action |-> ActNone]

\* the keys of the keyboard that the loop tells apart
Keys == {"q", "Enter", "Down", "Up", "Esc", "x"}

\* the resolver results used by handle_action for an action
PoolResultsFor(act) == IF act.kind = "FileSelected" THEN PoolResults[act.path] ELSE {NoRet}
DaemonResultsFor(act) == IF act.kind = "FileSelected" THEN DaemonResults_at[act.path] ELSE {NoRet}

\* one iteration of the loop of run_app on a key press
PressKey(keys) ==
    /\ ~exited
    /\ \E key \in keys :
        IF key = "q"
        THEN /\ exited' = TRUE
             /\ UNCHANGED <<app, explorer, action>>
        ELSE \E rd \in read_dir(select_dir(explorer)) :
             \E k \in {key_action(app, explorer, key, rd)} :
             \E pool \in PoolResultsFor(k.action), daemon \in DaemonResultsFor(k.action) :
             \E r \in {handle_action(k.action, k.app, pool, daemon)} :
                /\ app' = r.app
                /\ explorer' = k.explorer
                /\ action' = k.action
                /\ exited' = r.exit
    /\ UNCHANGED <<edits, poolVars, daemonVars, fnVars>>

KeyPress == PressKey(Keys)

\* the keys Down and Up pressed outside the explorer
SidebarKey ==
    /\ app.current_screen # "FileExplorer"
    /\ PressKey({"Down", "Up"})

\* the paths and screens carried by the actions given to handle_action
Actions ==
    {ActNone, Quit, ToggleMenu, CloseModal}
        \cup {Navigate(s) : s \in CurrentScreen}
        \cup {OpenExplorer(s) : s \in CurrentScreen}
        \cup {FileSelected(path) : path \in {"/cfg/bitcoin.conf", "/cfg/p2pool.toml", "/cfg/mainnet.toml"}}

\* one call handle_action(action, &mut app)
HandleAction ==
    /\ ~exited
    /\ \E act \in Actions :
       \E pool \in PoolResultsFor(act), daemon \in DaemonResultsFor(act) :
       \E r \in {handle_action(act, app, pool, daemon)} :
            /\ app' = r.app
            /\ action' = act
            /\ exited' = r.exit
    /\ UNCHANGED <<explorer, edits, poolVars, daemonVars, fnVars>>

\* the calls of the explorer's methods
LoadDirectory ==
    /\ \E rd \in read_dir(explorer.current_dir) : explorer' = load_directory(explorer, rd)
    /\ action' = Act("load_directory", "", "")
    /\ UNCHANGED <<app, exited, edits, poolVars, daemonVars, fnVars>>

CallNext ==
    /\ explorer' = next(explorer)
    /\ action' = Act("next", "", "")
    /\ UNCHANGED <<app, exited, edits, poolVars, daemonVars, fnVars>>

CallPrevious ==
    /\ explorer' = previous(explorer)
    /\ action' = Act("previous", "", "")
    /\ UNCHANGED <<app, exited, edits, poolVars, daemonVars, fnVars>>

\* select(): the path it returns is recorded in the action
CallSelect ==
    /\ \E rd \in read_dir(select_dir(explorer)) : \E r \in {select(explorer, rd)} :
        /\ explorer' = r.explorer
        /\ action' = Act("select", "", IF r.result.some THEN r.result.v ELSE "")
    /\ UNCHANGED <<app, exited, edits, poolVars, daemonVars, fnVars>>

\* the values of the application's variables where the application is not run
NoExplorer == [current_dir |-> "", files |-> << >>, selected_index |-> 0]

ResolverInit ==
    /\ edits = 0
    /\ file = MissingFile
    /\ env = [k \in {} |-> ""]
    /\ pc = "idle"
    /\ p = NoP
    /\ ret = NoRet
    /\ conf = NoConf
    /\ dpc = "idle"
    /\ dret = NoRet
    /\ arg = 0
    /\ out = ""

\* App::new() in one of the working directories
AppInit ==
    /\ ResolverInit
    /\ app = App_new
    /\ \E cwd \in {"/cfg", "."} : \E rd \in read_dir(cwd) : explorer = FileExplorer_new(cwd, rd)
    /\ action = ActNone
    /\ exited = FALSE

\* handle_action called with any action, and the sidebar moved by its keys
AppNext == HandleAction \/ SidebarKey

AppSpec == AppInit /\ [][AppNext]_vars

\* the loop of run_app
RunNext == KeyPress

RunSpec == AppInit /\ [][RunNext]_vars

\* the explorer's methods called in any order
ExplorerNext == LoadDirectory \/ CallNext \/ CallPrevious \/ CallSelect

ExplorerSpec == AppInit /\ [][ExplorerNext]_vars

Init ==
    /\ edits = 0
    /\ file \in Templates
    /\ env = [k \in {} |-> ""]
    /\ pc = "start"
    /\ p = NoP
    /\ ret = NoRet
    /\ conf = NoConf
    /\ dpc = "idle"
    /\ dret = NoRet
    /\ arg = 0
    /\ out = ""
    /\ app = App_new
    /\ explorer = NoExplorer
    /\ action = ActNone
    /\ exited = FALSE

Next ==
    \/ SetLine
    \/ RemoveLine
    \/ AddHeader
    \/ WriteHeaderless
    \/ AddComment
    \/ Corrupt
    \/ MakeUnreadable
    \/ SetEnv
    \/ ParseConfig

Spec == Init /\ [][Next]_vars

DaemonInit ==
    /\ edits = 0
    /\ file = MissingFile
    /\ env = [k \in {} |-> ""]
    /\ pc = "idle"
    /\ p = NoP
    /\ ret = NoRet
    /\ conf \in ConfTemplates
    /\ dpc = "start"
    /\ dret = NoRet
    /\ arg = 0
    /\ out = ""
    /\ app = App_new
    /\ explorer = NoExplorer
    /\ action = ActNone
    /\ exited = FALSE

DaemonNext == SetConfKey \/ RemoveConfKey \/ CorruptConf \/ ParseDaemonConfig

DaemonSpec == DaemonInit /\ [][DaemonNext]_vars

(***************************************************************************)
(* The renderings of flatten applied alone to every value of their type.    *)
(***************************************************************************)
otherVars == <<edits, file, env, pc, p, ret, conf, dpc, dret, app, explorer, action, exited>>

\* the closure of the donation and fee entries applied to a u16
RenderBasisPoints ==
    /\ out = ""
    /\ out' = FormatBasisPoints(arg)
    /\ UNCHANGED <<arg, otherVars>>

RenderInit ==
    /\ edits = 0
    /\ file = MissingFile
    /\ env = [k \in {} |-> ""]
    /\ pc = "idle"
    /\ p = NoP
    /\ ret = NoRet
    /\ conf = NoConf
    /\ dpc = "idle"
    /\ dret = NoRet
    /\ arg \in 0..U16Max
    /\ out = ""
    /\ app = App_new
    /\ explorer = NoExplorer
    /\ action = ActNone
    /\ exited = FALSE

RenderNext == RenderBasisPoints

RenderSpec == RenderInit /\ [][RenderNext]_vars

(***************************************************************************)
(* The stratum.version_mask field on its own: the text of the field is      *)
(* deserialized and, when that succeeds, rendered by the flattener.         *)
(***************************************************************************)
\* the longest run of one digit in a version mask text
MaxRun == 7

MaskDigits == {"0", "1", "7", "8", "f", "F", "g"}

RECURSIVE Rep(_, _)
Rep(c, n) == IF n = 0 THEN "" ELSE c \o Rep(c, n - 1)

\* an optional sign, a first digit, a run of one digit, a last digit
MaskInputs ==
    {sign \o a \o Rep(b, n) \o c :
        sign \in {"", "-", "+"}, a \in MaskDigits \cup {""}, b \in MaskDigits,
        n \in 0..MaxRun, c \in MaskDigits \cup {""}}

maskVars == <<edits, file, env, p, conf, dpc, dret, out, app, explorer, action, exited>>

\* parse_config on a file whose only questionable field is stratum.version_mask
LoadVersionMask ==
    /\ pc = "start"
    /\ pc' = "done"
    /\ \E d \in {deserialize_version_mask(VStr(arg))} :
        ret' = IF d.ok
               THEN Ok(push("stratum", "version_mask", FormatHex08(d.v.n), FALSE))
               ELSE Err("Failed to deserialize config: "
                            \o DeserMessage(FieldOf("stratum", "version_mask"),
                                            Put(EmptyTable, "version_mask", VStr(arg)))
                            \o "\nFile: " \o PathDisplay)
    /\ UNCHANGED <<arg, maskVars>>

MaskInit ==
    /\ edits = 0
    /\ file = MissingFile
    /\ env = [k \in {} |-> ""]
    /\ pc = "start"
    /\ p = NoP
    /\ ret = NoRet
    /\ conf = NoConf
    /\ dpc = "idle"
    /\ dret = NoRet
    /\ arg \in MaskInputs
    /\ out = ""
    /\ app = App_new
    /\ explorer = NoExplorer
    /\ action = ActNone
    /\ exited = FALSE

MaskNext == LoadVersionMask

MaskSpec == MaskInit /\ [][MaskNext]_vars

(***************************************************************************)
(* PROPERTIES OF THE POOL-SERVICE RESOLVER (specification Spec)             *)
(***************************************************************************)
Done == pc = "done"

\* the entries of the returned list
Entries == {ret.entries[i] : i \in 1..Len(ret.entries)}
EntriesOf(sec, key) == {e \in Entries : e.section = sec /\ e.key = key}
ValuesOf(sec, key) == {e.value : e \in EntriesOf(sec, key)}

\* the section markers that occur in the text read from the file
TextMarkers == IF file.exists /\ file.readable THEN file.headers \cup file.stray ELSE {}

\* the environment holds a variable of the P2POOL_ prefix
PrefixedEnv == \E name \in DOMAIN env : StartsWith(name, "P2POOL_")

DomainMismatch ==
    /\ ret.kind = "err"
    /\ StartsWith(ret.err, "Invalid P2Pool config")
    /\ ret.entries = << >>
    /\ ~ret.flattened

\* C1: when the text of the file contains none of the seven section markers
\* and no environment variable starts with P2POOL_, parse_config returns the
\* domain-mismatch error "Invalid P2Pool config" and no entry list; a missing
\* or unreadable file counts as an empty text.
C1_DomainMismatch ==
    (Done /\ TextMarkers = {} /\ ~PrefixedEnv) => DomainMismatch

\* a file whose sections are written without any literal marker is rejected
C1_Witness ==
    /\ Done
    /\ file.exists /\ file.readable /\ file.toml_ok
    /\ FileSections(file) # {}
    /\ TextMarkers = {}
    /\ ~PrefixedEnv
    /\ DomainMismatch

\* a field set in the file and, with another value, by its P2POOL_ variable
Conflict(f) ==
    /\ file.exists
    /\ f.key \in DOMAIN file.tables[f.sec]
    /\ EnvName(f) \in DOMAIN env
    /\ EnvText(file.tables[f.sec][f.key]) # env[EnvName(f)]

\* the values of the entries of field f when the field holds the value of
\* its environment variable
EnvValuesOf(f) ==
    LET q == [p EXCEPT ![f.sec].f[f.key] = Coerce(f.kind, VStr(env[EnvName(f)])).v]
        es == flatten(q, TRUE, TRUE, TRUE)
    IN  {es[i].value : i \in {j \in 1..Len(es) : es[j].section = f.sec /\ es[j].key = f.key}}

\* C2: for every field set both in the file and by its variable
\* P2POOL_<SECTION>_<FIELD> with a conflicting value, the entry of the field
\* in the returned list carries the environment value, never the file value.
C2_EnvOverrideWins ==
    (Done /\ ret.kind = "ok") =>
        \A f \in FieldSet : Conflict(f) => ValuesOf(f.sec, f.key) = EnvValuesOf(f)

\* the case in which the override does win: a field whose name has no "_"
C2_OverrideApplied ==
    /\ Done /\ ret.kind = "ok"
    /\ \E f \in FieldSet :
        /\ Conflict(f)
        /\ ValuesOf(f.sec, f.key) = EnvValuesOf(f)
        /\ ValuesOf(f.sec, f.key) # {EnvText(file.tables[f.sec][f.key])}

(***************************************************************************)
(* Stratum validation.  The configured stratum section is the one of the   *)
(* deserialized P2PoolConfig; the properties below are about the calls in   *)
(* which deserialization succeeded and a stratum section is configured.    *)
(***************************************************************************)
Validating == Done /\ p["stratum"].some

Stratum(k) == p["stratum"].f[k]

\* the address parses (encoding and checksum), whatever its network
Structural(k) == IsSome(Stratum(k)) /\ Stratum(k).s \in ChecksummedAddresses

\* the networks on which an address of the given form can be spent
NetworksOf(a) ==
    IF StartsWith(a, "bcrt1") THEN {"Regtest"}
    ELSE IF StartsWith(a, "bc1") \/ Ch(a, 1) \in {"1", "3"} THEN {"Bitcoin"}
    ELSE IF StartsWith(a, "tb1") THEN {"Testnet", "Signet"}
    ELSE {"Testnet", "Signet", "Regtest"}

RightNetwork(k) == Structural(k) /\ Stratum("network").s \in NetworksOf(Stratum(k).s)
WrongNetwork(k) == Structural(k) /\ Stratum("network").s \notin NetworksOf(Stratum(k).s)

\* the field is absent or a valid address of the configured network
Sound(k) == ~IsSome(Stratum(k)) \/ RightNetwork(k)

SignatureFits == ~IsSome(Stratum("pool_signature")) \/ Utf8Len(Stratum("pool_signature").s) <= 16

\* no check that StratumConfig::parse makes before the one of field k fails
NothingBefore(k) ==
    CASE k = "bootstrap_address" -> SignatureFits
      [] k = "donation_address" -> SignatureFits /\ Sound("bootstrap_address")
      [] k = "fee_address" ->
            /\ SignatureFits /\ Sound("bootstrap_address") /\ Sound("donation_address")
            /\ (IsSome(Stratum("donation")) => IsSome(Stratum("donation_address")))

ValidatedAddresses == {"bootstrap_address", "donation_address", "fee_address"}

\* C3: for bootstrap_address, donation_address and fee_address, a structurally
\* valid address of a network other than stratum.network makes the load fail,
\* with "Invalid <field>" (the first failing check is the one reported); an
\* address valid for the configured network is not rejected and, when the load
\* succeeds, its entry carries the identical configured string.
C3_AddressNetwork ==
    Validating =>
        \A k \in ValidatedAddresses :
            /\ WrongNetwork(k) =>
                /\ ret.kind = "err" /\ ret.entries = << >>
                /\ NothingBefore(k) => ret.err = "Invalid " \o k
            /\ RightNetwork(k) =>
                /\ ret.err # "Invalid " \o k
                /\ ret.kind = "ok" => ValuesOf("stratum", k) = {Stratum(k).s}

\* an address of another network is configured and rejected
C3_Witness ==
    /\ Validating
    /\ WrongNetwork("fee_address")
    /\ RightNetwork("bootstrap_address")
    /\ ret.err = "Invalid fee_address"

DonationRequired == "donation_address is required when donation is set"
FeeRequired == "fee_address is required when fee is set"

\* C4: donation set without donation_address makes the load fail with the
\* error that names donation_address as required; fee set without fee_address
\* makes it fail with the error that names fee_address (the first failing check
\* is the one reported); an address without its numeric field is accepted.
C4_DependentFields ==
    Validating =>
        /\ (IsSome(Stratum("donation")) /\ ~IsSome(Stratum("donation_address"))) =>
                /\ ret.kind = "err" /\ ret.entries = << >>
                /\ (SignatureFits /\ Sound("bootstrap_address")) => ret.err = DonationRequired
        /\ (IsSome(Stratum("fee")) /\ ~IsSome(Stratum("fee_address"))) =>
                /\ ret.kind = "err" /\ ret.entries = << >>
                /\ NothingBefore("fee_address") => ret.err = FeeRequired
        /\ (~IsSome(Stratum("donation")) /\ RightNetwork("donation_address")) =>
                /\ ret.err # DonationRequired
                /\ NothingBefore("donation_address") /\ Sound("fee_address")
                     /\ (IsSome(Stratum("fee")) => IsSome(Stratum("fee_address")))
                   => ret.kind = "ok"
        /\ (~IsSome(Stratum("fee")) /\ RightNetwork("fee_address")) =>
                /\ ret.err # FeeRequired
                /\ NothingBefore("fee_address") => ret.kind = "ok"

\* fee is set, its address is not, and the load fails naming fee_address
C4_Witness ==
    /\ Validating
    /\ IsSome(Stratum("fee")) /\ ~IsSome(Stratum("fee_address"))
    /\ ret.err = FeeRequired

SignatureError == "Pool signature exceeds max length"

\* the configured pool_signature
Signature == Stratum("pool_signature").s
HasSignature == Validating /\ IsSome(Stratum("pool_signature"))

\* C5 (as amended): a pool_signature of more than 16 bytes of UTF-8 always
\* makes the load fail with "Pool signature exceeds max length" and is never
\* truncated; a pool_signature of 16 bytes or fewer never fails this check
\* and is emitted unchanged.
C5_SignatureBytes ==
    HasSignature =>
        /\ Utf8Len(Signature) > 16 =>
                ret.kind = "err" /\ ret.err = SignatureError /\ ret.entries = << >>
        /\ Utf8Len(Signature) <= 16 =>
                /\ ret.err # SignatureError
                /\ ret.kind = "ok" => ValuesOf("stratum", "pool_signature") = {Signature}

\* C5 (as stated): a pool_signature of more than 16 characters always makes
\* the load fail with "Pool signature exceeds max length"; one of 16 characters
\* or fewer never fails this check and is emitted unchanged.
C5_SignatureCharacters ==
    HasSignature =>
        /\ Len(Signature) > 16 =>
                ret.kind = "err" /\ ret.err = SignatureError /\ ret.entries = << >>
        /\ Len(Signature) <= 16 =>
                /\ ret.err # SignatureError
                /\ ret.kind = "ok" => ValuesOf("stratum", "pool_signature") = {Signature}

\* a signature of at most 16 characters and more than 16 bytes is rejected
C5_Witness ==
    /\ HasSignature
    /\ Len(Signature) <= 16
    /\ Utf8Len(Signature) > 16
    /\ ret.err = SignatureError

(***************************************************************************)
(* The is_default flag and the rendering of the entries.                   *)
(***************************************************************************)
\* the field is written in the file or named by a variable of the environment
ExplicitlySet(sec, key) ==
    \/ file.exists /\ key \in DOMAIN file.tables[sec]
    \/ EnvName(FieldOf(sec, key)) \in DOMAIN env

\* the section is present in a source: in the file, or through a variable of
\* the environment that names one of its fields
SectionInSource(sec) ==
    \/ file.exists /\ sec \in FileSections(file)
    \/ \E key \in KeysOf(sec) : EnvName(FieldOf(sec, key)) \in DOMAIN env

\* C6: every emitted field that was explicitly set, in the file or by an
\* environment override, has is_default = false, also when the value equals
\* the default; is_default = true is only possible when the owning section
\* is not explicitly present in the source.
C6_ExplicitIsNotDefault ==
    (Done /\ ret.kind = "ok") =>
        \A e \in Entries :
            /\ ExplicitlySet(e.section, e.key) => ~e.is_default
            /\ e.is_default => ~SectionInSource(e.section)

\* the text of a declared default (serde default function) of a field
DeclaredDefault(f) ==
    IF f.dflt.t = "str" THEN f.dflt.s ELSE UIntToString(f.dflt.n)

\* C7: every key of network.* and logging.* that has a declared default and
\* appears in no source, its section being absent from the file and from the
\* environment, is emitted with its declared default as value and with
\* is_default = true.
C7_AbsentKeysShowDefaults ==
    (Done /\ ret.kind = "ok") =>
        \A e \in Entries :
            (/\ e.section \in {"network", "logging"}
             /\ ~SectionInSource(e.section)
             /\ e.section \notin TextMarkers
             /\ FieldOf(e.section, e.key).dflt.t \in {"str", "int"})
            => (e.value = DeclaredDefault(FieldOf(e.section, e.key)) /\ e.is_default)

SecretFields == {<<"bitcoinrpc", "password">>, <<"api", "auth_token">>}

\* C10: for bitcoinrpc.password and api.auth_token, a configured secret that
\* is not empty is rendered as "*****", whatever its length and content, and
\* an empty one as "<empty>"; the secret itself is never emitted.
C10_SecretsMasked ==
    (Done /\ ret.kind = "ok") =>
        \A sf \in SecretFields :
            (p[sf[1]].some /\ IsSome(p[sf[1]].f[sf[2]])) =>
                ValuesOf(sf[1], sf[2]) =
                    {IF p[sf[1]].f[sf[2]].s = "" THEN "<empty>" ELSE "*****"}

(***************************************************************************)
(* PROPERTIES OF THE DAEMON RESOLVER (specification DaemonSpec)             *)
(***************************************************************************)
DaemonDone == dpc = "done"

DaemonEntries == {dret.entries[i] : i \in 1..Len(dret.entries)}
DaemonEntriesOf(key) == {e \in DaemonEntries : e.key = key}

\* the scopes of a daemon file in their order of precedence, "" the global one
ScopeOrder == <<"", "main", "test", "signet", "regtest">>

\* the key is written in the scope of the file
PresentIn(scope, key) ==
    /\ conf.exists /\ conf.ini_ok
    /\ IF scope = "" THEN key \in DOMAIN conf.global
       ELSE scope \in DOMAIN conf.scopes /\ key \in DOMAIN conf.scopes[scope]

WrittenValue(scope, key) ==
    IF scope = "" THEN conf.global[key] ELSE conf.scopes[scope][key]

FoundInFile(key) == \E i \in 1..Len(ScopeOrder) : PresentIn(ScopeOrder[i], key)

\* the first scope, in the order of precedence, in which the key is written
FirstScope(key) ==
    ScopeOrder[CHOOSE i \in 1..Len(ScopeOrder) :
                  /\ PresentIn(ScopeOrder[i], key)
                  /\ \A j \in 1..(i - 1) : ~PresentIn(ScopeOrder[j], key)]

\* C8: for every schema key the resolved value is the one of the first scope,
\* in the order global, main, test, signet, regtest, in which the key is
\* present, with enabled = true: a key present only in a later scope takes
\* that scope's value and a value in an earlier scope shadows the later ones.
C8_ScopePrecedence ==
    (DaemonDone /\ conf.exists /\ conf.ini_ok) =>
        \A key \in SchemaKeys :
            FoundInFile(key) =>
                \A e \in DaemonEntriesOf(key) :
                    e.value = WrittenValue(FirstScope(key), key) /\ e.enabled

\* C9: the output holds exactly one entry per schema key; the entry is enabled
\* if and only if the key was found in the global scope or in one of the
\* scopes main, test, signet, regtest; a key that was not found has the schema
\* default as value; a missing file gives Ok with every schema key at its
\* default and enabled = false.
C9_OneEntryPerSchemaKey ==
    DaemonDone =>
        /\ dret.kind = "ok"
        /\ \A i \in 1..Len(schema_list) :
            /\ Cardinality({j \in 1..Len(dret.entries) :
                              dret.entries[j].key = schema_list[i].key}) = 1
            /\ \A e \in DaemonEntriesOf(schema_list[i].key) :
                /\ e.enabled <=> FoundInFile(schema_list[i].key)
                /\ ~FoundInFile(schema_list[i].key) => e.value = schema_list[i].default
        /\ ~conf.exists => dret.entries = DefaultEntries

(***************************************************************************)
(* PROPERTIES OF THE RENDERINGS (specification RenderSpec)                  *)
(***************************************************************************)
\* the two decimals of the hundredths of v
Hundredths(v) == DigitChar[((v % 100) \div 10) + 1] \o DigitChar[(v % 10) + 1]

\* C11: for every donation or fee value v in 0..65535 the entry value is
\* "<v> bp (<p>%)", p being v/100 printed without decimals when v is a
\* multiple of 100 and with exactly two decimals otherwise.
C11_BasisPoints ==
    out # "" =>
        out = UIntToString(arg) \o " bp (" \o UIntToString(arg \div 100)
                \o (IF arg % 100 = 0 THEN "" ELSE "." \o Hundredths(arg)) \o "%)"

\* a value whose hundredths start with a zero
C11_Witness == arg = 105 /\ out = "105 bp (1.05%)"

(***************************************************************************)
(* FURTHER PROPERTIES OF THE POOL-SERVICE RESOLVER (specification Spec)     *)
(***************************************************************************)
\* the configured miner key
MinerKey == p["miner"].f["pubkey"].s
HasMinerKey == Done /\ p["miner"].some

\* the text is the 33-byte form of a key: 66 hexadecimal digits, prefix 02 or
\* 03, an x coordinate of the curve
IsCompressedKey(s) ==
    /\ Len(s) = 66
    /\ \A i \in 1..Len(s) : ToLower(Ch(s, i)) \in {DigitChar[d] : d \in 1..16}
    /\ SubSeq(s, 1, 2) \in {"02", "03"}
    /\ ToLower(s) \in OnCurveKeys

\* the entries of the other fields
OtherEntries(es) == SelectSeq(es, LAMBDA e : ~(e.section = "miner" /\ e.key = "pubkey"))

\* C12: a miner.pubkey that is not a structurally valid compressed public key
\* does not fail the load: the entry of miner.pubkey is "<invalid pubkey>" and
\* every other entry is the one produced with a valid key; a valid compressed
\* key is emitted unchanged.
C12_InvalidPubkey ==
    (HasMinerKey /\ ret.flattened) =>
        /\ ret.kind = "ok"
        /\ ValuesOf("miner", "pubkey") =
                {IF IsCompressedKey(MinerKey) THEN MinerKey ELSE "<invalid pubkey>"}
        /\ OtherEntries(ret.entries) =
                OtherEntries(flatten([p EXCEPT !["miner"].f["pubkey"] = VStr(PUBKEY_OK)],
                                     "network" \in TextMarkers, "stratum" \in TextMarkers,
                                     "logging" \in TextMarkers))

\* a defect of the configured stratum section that validation rejects
ValidationDefect ==
    \/ ~SignatureFits
    \/ \E k \in ValidatedAddresses : ~Sound(k)
    \/ IsSome(Stratum("donation")) /\ ~IsSome(Stratum("donation_address"))
    \/ IsSome(Stratum("fee")) /\ ~IsSome(Stratum("fee_address"))

\* C13: flatten is reached only after StratumConfig::parse has run exactly
\* once and succeeded, or when there is no stratum section; every validation
\* failure aborts the load with a single error and no entry list, not even a
\* partial one.
C13_ValidateBeforeFlatten ==
    Done =>
        /\ ret.flattened =>
            /\ ret.kind = "ok"
            /\ p["stratum"].some => (ret.validated = 1 /\ ~ValidationDefect)
            /\ ~p["stratum"].some => ret.validated = 0
        /\ (Validating /\ ValidationDefect) =>
            (ret.kind = "err" /\ ret.err # "" /\ ret.entries = << >> /\ ~ret.flattened)
        /\ ret.kind = "err" => (ret.entries = << >> /\ ~ret.flattened)

\* a validated stratum section has been flattened
C13_Witness ==
    /\ Done /\ ret.flattened
    /\ p["stratum"].some /\ ret.validated = 1
    /\ EntriesOf("stratum", "bootstrap_address") # {}

\* C14: a solo_address that is structurally invalid, or valid only for a
\* network other than stratum.network, makes the load fail, with the
\* invalid-address error of that field when no other check fails.
C14_SoloAddressValidated ==
    (Validating /\ IsSome(Stratum("solo_address")) /\ ~RightNetwork("solo_address")) =>
        /\ ret.kind = "err" /\ ret.entries = << >>
        /\ ~ValidationDefect => ret.err = "Invalid solo_address"

(***************************************************************************)
(* FURTHER PROPERTIES OF THE DAEMON RESOLVER (specification DaemonSpec)     *)
(***************************************************************************)
\* the keys written in the file, in the global scope or in a network scope
KeysInFile ==
    IF conf.exists /\ conf.ini_ok
    THEN (DOMAIN conf.global)
            \cup UNION {DOMAIN conf.scopes[sc] : sc \in (DOMAIN conf.scopes) \cap
                                                       {"main", "test", "signet", "regtest"}}
    ELSE {}

UnknownKeysInFile == KeysInFile \ SchemaKeys

\* the positions of the entries of a key in the returned list
PositionsOf(key) == {j \in 1..Len(dret.entries) : dret.entries[j].key = key}

\* C15: every key of the file, global or of a scope main, test, signet or
\* regtest, that is not a schema key appears exactly once in the output, after
\* all the schema-driven entries, without schema and with enabled = true.
C15_UnknownKeysAppended ==
    DaemonDone =>
        \A key \in UnknownKeysInFile :
            /\ Cardinality(PositionsOf(key)) = 1
            /\ \A j \in PositionsOf(key) :
                /\ ~dret.entries[j].schema
                /\ dret.entries[j].enabled
                /\ \A i \in 1..Len(dret.entries) : dret.entries[i].schema => i < j

\* the display form of a raw value when boolean, integer and float are
\* attempted in that order before the raw string
DisplayForm(raw) ==
    IF IntoBool(VStr(raw)).ok THEN (IF IntoBool(VStr(raw)).v.n = 1 THEN "1" ELSE "0")
    ELSE IF IntoUInt(VStr(raw), Unbounded).ok THEN UIntToString(IntoUInt(VStr(raw), Unbounded).v.n)
    ELSE IF IntoFloat(VStr(raw)).ok THEN FloatToString(IntoFloat(VStr(raw)).v.n)
    ELSE raw

\* the raw values written for a key anywhere in the file
RawValuesOf(key) ==
    {WrittenValue(ScopeOrder[i], key) : i \in {j \in 1..Len(ScopeOrder) : PresentIn(ScopeOrder[j], key)}}

\* C16: the value shown for a key without schema is the display form of a raw
\* value written for it, boolean attempted first, then integer, then float,
\* the raw string last: a raw "true" is shown as "1".
C16_CoercionOrder ==
    DaemonDone =>
        \A e \in DaemonEntries :
            ~e.schema => e.value \in {DisplayForm(raw) : raw \in RawValuesOf(e.key)}

\* the daemon file exists and does not load as INI
Unparsable == conf.exists /\ ~conf.ini_ok

\* C17: when an existing daemon file cannot be parsed as INI, parse_config
\* returns an error and never Ok with the list of defaults; only a missing
\* file is read as an empty source.
C17_FormatErrorIsTerminal ==
    (DaemonDone /\ Unparsable) => (dret.kind = "err" /\ dret.entries = << >>)

(***************************************************************************)
(* PROPERTIES OF THE VERSION MASK (specification MaskSpec)                  *)
(***************************************************************************)
\* sub occurs in s
Contains(s, sub) ==
    \E i \in 1..(Len(s) - Len(sub) + 1) : SubSeq(s, i, i + Len(sub) - 1) = sub

\* the text without its sign, and without its leading zeros
MaskMagnitude(s) == IF Len(s) > 0 /\ Ch(s, 1) \in {"-", "+"} THEN SubSeq(s, 2, Len(s)) ELSE s
MaskSignificant(s) == StripZeros(MaskMagnitude(s))
MaskNegative(s) == Len(s) > 0 /\ Ch(s, 1) = "-"

\* the text is hexadecimal and its value lies in -2^31 .. 2^31 - 1
HexOfI32(s) ==
    /\ IsHex(MaskMagnitude(s))
    /\ \/ Len(MaskSignificant(s)) < 8
       \/ Len(MaskSignificant(s)) = 8 /\ Ch(MaskSignificant(s), 1) \in {"0", "1", "2", "3", "4", "5", "6", "7"}
       \/ MaskNegative(s) /\ MaskSignificant(s) = "80000000"

LowerHexDigits == {"0", "1", "2", "3", "4", "5", "6", "7", "8", "9", "a", "b", "c", "d", "e", "f"}

\* the 8 digits of bits are those of m: the sum of the two is 2^32 when m is
\* negated (checked digit by digit from the right, carry included)
RECURSIVE Negates(_, _, _)
Negates(bits, m, carry) ==
    IF Len(bits) = 0 THEN carry = 1
    ELSE /\ (HexVal(Ch(bits, Len(bits))) + HexVal(Ch(m, Len(m))) + carry) % 16 = 0
         /\ Negates(SubSeq(bits, 1, Len(bits) - 1), SubSeq(m, 1, Len(m) - 1),
                    (HexVal(Ch(bits, Len(bits))) + HexVal(Ch(m, Len(m))) + carry) \div 16)

\* the 8 digits denote the 32-bit value written in the text s
SameValue(bits, s) ==
    LET m == ToLower(PadLeft(MaskSignificant(s), 8, "0"))
    IN  IF MaskNegative(s) /\ m # "00000000" THEN Negates(bits, m, 0) ELSE bits = m

MaskDone == pc = "done" /\ arg \in MaskInputs

\* C18: a version_mask text that is not hexadecimal for a 32-bit signed value
\* fails the load with the message "version_mask must be hex"; an accepted
\* one is rendered as exactly 8 lower-case hexadecimal digits, zero-padded,
\* denoting the same 32-bit value.
C18_VersionMask ==
    MaskDone =>
        IF HexOfI32(arg)
        THEN /\ ret.kind = "ok" /\ Len(ret.entries) = 1
             /\ Len(ret.entries[1].value) = 8
             /\ \A i \in 1..8 : Ch(ret.entries[1].value, i) \in LowerHexDigits
             /\ SameValue(ret.entries[1].value, arg)
        ELSE /\ ret.kind = "err"
             /\ Contains(ret.err, "version_mask must be hex")

\* an upper-case mask is rendered in lower case, a negative one as its
\* two's complement, and a mask of 8 digits with the top bit set is refused
C18_Witness ==
    /\ MaskDone
    /\ \/ arg = "1FFF" /\ ret.kind = "ok" /\ ret.entries[1].value = "00001fff"
       \/ arg = "-1" /\ ret.kind = "ok" /\ ret.entries[1].value = "ffffffff"
       \/ arg = "ffffffff" /\ ret.kind = "err"

(***************************************************************************)
(* FURTHER PROPERTIES OF THE POOL-SERVICE RESOLVER (specification Spec)     *)
(***************************************************************************)
\* the configurations cfg.build() can return for the file and environment of
\* the state, one for each order in which the environment can be iterated
MergedTrees == {Build(file, env, order) : order \in Orders(DOMAIN env)}

\* the merged configuration gives stratum.network as a text
HasNetworkText(tree) ==
    /\ "stratum" \in DOMAIN tree
    /\ tree["stratum"].v.t = "table"
    /\ "network" \in DOMAIN tree["stratum"].tbl
    /\ IntoString(tree["stratum"].tbl["network"]).ok

NetworkText(tree) == IntoString(tree["stratum"].tbl["network"]).v.s

NetworkNames == {"main", "test", "signet", "regtest"}

\* C19: stratum.network is accepted only when it is exactly one of main, test,
\* signet and regtest; any other text, "Signet" included, fails the load: no
\* entries are returned and no default network takes its place.
C19_NetworkNames ==
    (Done /\ \A tree \in MergedTrees :
                HasNetworkText(tree) /\ NetworkText(tree) \notin NetworkNames) =>
        /\ ret.kind = "err"
        /\ ret.entries = << >>
        /\ p = NoP

\* the file gives network = "Signet" and the load fails on that field
C19_Witness ==
    /\ Done
    /\ \A tree \in MergedTrees : HasNetworkText(tree) /\ NetworkText(tree) = "Signet"
    /\ ret.kind = "err"
    /\ Contains(ret.err, "failed to parse Signet as network")

(***************************************************************************)
(* DETERMINISM (specification DaemonSpec)                                   *)
(***************************************************************************)
\* the entry lists parse_config can return for the daemon file of the state
DaemonResults == {daemon_parse_config(conf, order).entries : order \in UnknownOrders(conf)}

\* C20: two invocations of a resolver on the same file and the same
\* environment return the same entries in the same order: the list returned
\* is the only one the resolver can return for these inputs.
C20_Deterministic ==
    DaemonDone => DaemonResults = {dret.entries}

(***************************************************************************)
(* ABSENT OPTIONALS (specification Spec)                                    *)
(***************************************************************************)
OptionalSections == {"store", "stratum", "miner", "bitcoinrpc", "api"}

OptionalFields ==
    {<<"stratum", k>> : k \in {"maximum_difficulty", "solo_address", "bootstrap_address",
                               "donation_address", "donation", "fee_address", "fee",
                               "ignore_difficulty", "pool_signature"}}
    \cup {<<"logging", "file">>, <<"api", "auth_user">>, <<"api", "auth_token">>}

\* the field is present in the deserialized configuration
FieldPresent(sec, key) == p[sec].some /\ IsSome(p[sec].f[key])

Loaded == Done /\ ret.kind = "ok"

\* C21: an optional section or field that is absent from the configuration
\* has no entry in the output; an entry for it exists if and only if it is
\* present.
C21_AbsentOptionalsOmitted ==
    Loaded =>
        /\ \A sec \in OptionalSections : (\E e \in Entries : e.section = sec) <=> p[sec].some
        /\ \A f \in OptionalFields : (EntriesOf(f[1], f[2]) # {}) <=> FieldPresent(f[1], f[2])

\* a stratum section without solo_address and no store section: neither has
\* an entry, while the fee address that is present has one
C21_Witness ==
    /\ Loaded
    /\ p["stratum"].some /\ ~FieldPresent("stratum", "solo_address")
    /\ EntriesOf("stratum", "solo_address") = {}
    /\ ~p["store"].some /\ \A e \in Entries : e.section # "store"
    /\ FieldPresent("stratum", "fee_address") /\ EntriesOf("stratum", "fee_address") # {}

\* C28: the value of the stratum.network entry is the name that was
\* configured (main, test, signet or regtest): given back as the configured
\* network it is accepted and yields the same network.
C28_NetworkRoundTrip ==
    (Loaded /\ p["stratum"].some) =>
        \A e \in EntriesOf("stratum", "network") :
            /\ from_core_arg(e.value).ok
            /\ from_core_arg(e.value).v = Stratum("network")

(***************************************************************************)
(* PROPERTIES OF THE APPLICATION (specifications AppSpec and RunSpec)       *)
(***************************************************************************)
\* the configuration paths and entry lists stored in an App
Stored(a) == <<a.bitcoin_conf_path, a.p2pool_conf_path, a.bitcoin_data, a.p2pool_data>>

\* C22: handle_action(OpenExplorer(s)) sets explorer_trigger = Some(s) and
\* current_screen = FileExplorer; a following handle_action(CloseModal) sets
\* current_screen back to s and explorer_trigger to None and leaves the
\* stored paths and entry lists unchanged.
C22_ExplorerRoundTrip ==
    /\ [](action.kind = "OpenExplorer" =>
            /\ app.explorer_trigger = Some(action.screen)
            /\ app.current_screen = "FileExplorer")
    /\ [][(action.kind = "OpenExplorer" /\ action'.kind = "CloseModal") =>
            /\ app'.current_screen = action.screen
            /\ app'.explorer_trigger = None
            /\ Stored(app') = Stored(app)]_vars

\* the explorer closed on the screen that opened it, which is not the screen
\* of the sidebar, with a selected file still stored
C22_Witness ==
    /\ action = CloseModal
    /\ app.current_screen = "P2PoolConfig" /\ app.sidebar_index = 0
    /\ app.explorer_trigger = None
    /\ app.p2pool_conf_path = Some("/cfg/p2pool.toml")

\* the entry lists a successful load of the path stores
LoadedLists(results) == {r.entries : r \in {q \in results : q.kind = "ok"}}
LoadSucceeds(results) == \A r \in results : r.kind = "ok"
LoadFails(results) == \A r \in results : r.kind = "err"

\* C23: handle_action(FileSelected(path)) with explorer_trigger =
\* Some(BitcoinConfig) (resp. Some(P2PoolConfig)) stores the path in
\* bitcoin_conf_path (resp. p2pool_conf_path), returns to the trigger screen,
\* clears the trigger and, when the load succeeds, replaces the entry list of
\* that domain by the resolved list; the path and the list of the other
\* domain are unchanged.
C23_FileSelection ==
    [][action'.kind = "FileSelected" =>
        /\ app.explorer_trigger = Some("BitcoinConfig") =>
            /\ app'.bitcoin_conf_path = Some(action'.path)
            /\ app'.current_screen = "BitcoinConfig"
            /\ app'.explorer_trigger = None
            /\ LoadSucceeds(DaemonResults_at[action'.path]) =>
                    app'.bitcoin_data \in LoadedLists(DaemonResults_at[action'.path])
            /\ app'.p2pool_conf_path = app.p2pool_conf_path
            /\ app'.p2pool_data = app.p2pool_data
        /\ app.explorer_trigger = Some("P2PoolConfig") =>
            /\ app'.p2pool_conf_path = Some(action'.path)
            /\ app'.current_screen = "P2PoolConfig"
            /\ app'.explorer_trigger = None
            /\ LoadSucceeds(PoolResults[action'.path]) =>
                    app'.p2pool_data \in LoadedLists(PoolResults[action'.path])
            /\ app'.bitcoin_conf_path = app.bitcoin_conf_path
            /\ app'.bitcoin_data = app.bitcoin_data]_vars

\* a pool file selected after a daemon file: the pool list is the one of the
\* new file and the daemon path and list are still there
C23_Witness ==
    /\ action = FileSelected("/cfg/mainnet.toml")
    /\ app.current_screen = "P2PoolConfig"
    /\ app.explorer_trigger = None
    /\ app.p2pool_conf_path = Some("/cfg/mainnet.toml")
    /\ app.p2pool_data \in LoadedLists(PoolResults["/cfg/mainnet.toml"])
    /\ app.bitcoin_conf_path = Some("/cfg/bitcoin.conf")
    /\ app.bitcoin_data \in LoadedLists(DaemonResults_at["/cfg/bitcoin.conf"])

\* C24: handle_action returns true if and only if the action is Quit, and
\* Quit changes no field of the App.
C24_ExitOnlyOnQuit ==
    /\ [](exited <=> action = Quit)
    /\ [][action' = Quit => app' = app]_vars

\* Quit handled after a file was selected: the exit is requested and the
\* stored path is still there
C24_Witness ==
    /\ action = Quit /\ exited
    /\ app.bitcoin_conf_path = Some("/cfg/bitcoin.conf")

\* the screen of a sidebar item
SidebarScreen(i) ==
    CASE i = 0 -> "Home" [] i = 1 -> "BitcoinConfig" [] i = 2 -> "P2PoolConfig" [] OTHER -> ""

\* C25: after any sequence of key presses processed by run_app from
\* App::new, explorer_trigger is Some exactly when current_screen is
\* FileExplorer, sidebar_index is within 0..2, and a current_screen other
\* than FileExplorer is the screen of sidebar_index.
C25_ScreenInvariant ==
    /\ app.explorer_trigger.some <=> app.current_screen = "FileExplorer"
    /\ app.sidebar_index \in 0..2
    /\ app.current_screen # "FileExplorer" => app.current_screen = SidebarScreen(app.sidebar_index)

\* back on the pool screen, the third sidebar item, after a file was picked
\* in the explorer
C25_Witness ==
    /\ action.kind = "FileSelected"
    /\ app.current_screen = "P2PoolConfig" /\ app.sidebar_index = 2
    /\ app.explorer_trigger = None
    /\ app.p2pool_conf_path.some

\* the list is what resolving the path gives: a list the resolver returns for
\* it, or no entry when the resolver fails on it
Matches(path, data, results) ==
    path.some =>
        IF LoadFails(results[path.v]) THEN data = << >>
        ELSE data \in LoadedLists(results[path.v])

\* C26: whenever bitcoin_conf_path (resp. p2pool_conf_path) is Some(p), the
\* entry list bitcoin_data (resp. p2pool_data) is the result of resolving p:
\* after a selection whose load fails the list does not keep the entries of
\* the file selected before.
C26_DataMatchesPath ==
    /\ Matches(app.bitcoin_conf_path, app.bitcoin_data, DaemonResults_at)
    /\ Matches(app.p2pool_conf_path, app.p2pool_data, PoolResults)

(***************************************************************************)
(* PROPERTIES OF THE FILE EXPLORER (specification ExplorerSpec)             *)
(***************************************************************************)
\* the entry under the cursor is a regular file
OnRegularFile(e) ==
    /\ Len(e.files) # 0
    /\ ~EndsWithDotDot(selected(e))
    /\ ~is_dir(selected(e))

\* C27: after any sequence of load_directory, next, previous and select,
\* selected_index < files.len() whenever files is not empty, and next and
\* previous change nothing on an empty list; next wraps from the last index
\* to 0 and previous from 0 to the last index; next followed by previous
\* restores the index; load_directory resets the index to 0; select on a
\* regular file returns it and changes neither current_dir, files nor
\* selected_index.
C27_ExplorerCursor ==
    /\ Len(explorer.files) # 0 => explorer.selected_index < Len(explorer.files)
    /\ Len(explorer.files) = 0 => (next(explorer) = explorer /\ previous(explorer) = explorer)
    /\ (Len(explorer.files) # 0 /\ explorer.selected_index = Len(explorer.files) - 1) =>
            next(explorer).selected_index = 0
    /\ (Len(explorer.files) # 0 /\ explorer.selected_index = 0) =>
            previous(explorer).selected_index = Len(explorer.files) - 1
    /\ previous(next(explorer)) = explorer
    /\ action.kind = "load_directory" => explorer.selected_index = 0
    /\ \A rd \in read_dir(explorer.current_dir) : load_directory(explorer, rd).selected_index = 0
    /\ OnRegularFile(explorer) =>
            \A rd \in read_dir(select_dir(explorer)) :
                select(explorer, rd) = [explorer |-> explorer, result |-> Some(selected(explorer))]
    /\ (action.kind = "select" /\ action.path # "") =>
            (OnRegularFile(explorer) /\ selected(explorer) = action.path)

\* select returned the last file of a directory of several entries
C27_Witness ==
    /\ action = Act("select", "", "/cfg/p2pool.toml")
    /\ explorer.current_dir = "/cfg"
    /\ Len(explorer.files) >= 3
    /\ explorer.selected_index = Len(explorer.files) - 1

====
